---- MODULE Spec2Model ----
(***************************************************************************)
(* node-mimer: the resource lifecycle of MimerConnection (a session), of   *)
(* MimerStmtWrapper (a prepared statement) and of MimerResultSetWrapper    *)
(* (an open cursor) over the handle-based Mimer C API.                     *)
(*                                                                         *)
(* One MimerConnection object is modelled together with every statement    *)
(* and result-set wrapper derived from it.  The engine is modelled by the  *)
(* state of the handles it has handed out; every engine call a method      *)
(* makes is appended to `calls`, with a flag telling whether the handle    *)
(* it was given was live at the moment of the call.                        *)
(***************************************************************************)
EXTENDS Integers, Sequences, FiniteSets, TLC

\* ---------------------------------------------------------------- bounds
\* Session handles the engine hands out (successful MimerBeginSession8 calls).
MaxSess == 2
\* Statement handles the engine hands out (successful MimerBeginStatement8 calls).
MaxHandles == 2
\* Column count of a statement that has result columns.
MaxCols == 2
\* Length of a params array that is not empty.
MaxParams == 2
\* Number of rows of a cursor that is not empty.
MaxRows == 1

\* Code points of a text parameter.
MaxChars == 3
\* Bytes of a binary parameter.
MaxBytes == 9
\* The write chunk limit, scaled down from 2 MB.
LOB_WRITE_CHUNK == 4

\* The read chunk size, scaled down from 64 KB.
LOB_READ_CHUNK == 2

\* ------------------------------------------------------ program constants
MIMERNULLHANDLE == 0
MIMER_SUCCESS == 0
MIMER_STATEMENT_CANNOT_BE_PREPARED == -24005

\* A generic negative engine status.
NegRc == {-1}
\* What MimerFetch answers besides MIMER_SUCCESS: the end of the data (a
\* positive status) or an error.
FetchEnd == {100} \cup NegRc
SessIds == 1..MaxSess
Handles == 1..MaxHandles

VARIABLES
  \* MimerConnection (connection.h:54-59)
  connAlive, session_, connected_, openStatements_, openResultSets_,
  \* MimerStmtWrapper / MimerResultSetWrapper objects, keyed by the statement
  \* handle they were created with
  stmts, rsets,
  \* the engine: handles opened so far, handles passed to an end call,
  \* open cursors
  nextSess, sessEnded, nextH, liveH, curH,
  \* the last operation: its name and target, the value the native method
  \* returned, the JavaScript exception it left pending, its engine calls
  op, ret, exc, calls,
  \* history: the wrappers a close() of the session invalidated, and the
  \* result sets on which a fetchNext() has returned null
  cascaded, nulled,
  \* the number of result columns of the statement that the SQL text given
  \* to the last operation denotes (0: no SQL text, or no result columns)
  sqlCols,
  \* the number of parameters the statement of the last operation declares
  \* and the length of the params array the caller passed
  sqlParams,
  \* BindParameters at work on one parameter value (helpers.cc 198-277), and
  \* FetchSingleRow at work on one column of a row (helpers.cc 306-418)
  binder, marshaller

connVars == <<connAlive, session_, connected_, openStatements_, openResultSets_>>
entVars == <<stmts, rsets>>
engVars == <<nextSess, sessEnded, nextH, liveH, curH>>
sessionVars == <<connAlive, session_, connected_, openStatements_, openResultSets_,
                 stmts, rsets,
                 nextSess, sessEnded, nextH, liveH, curH,
                 op, ret, exc, calls, cascaded, nulled, sqlCols, sqlParams>>
helperVars == <<binder, marshaller>>
vars == <<sessionVars, helperVars>>

\* ------------------------------------------------ values seen by the caller
\* `detail` lists the numbers the message text holds besides the code.
NoExc == [pending |-> FALSE, message |-> "", structured |-> FALSE,
          mimerCode |-> 0, operation |-> "", detail |-> <<>>]

\* ThrowMimerError with a detail text: an Error carrying mimerCode and
\* operation, whose message is "<operation> failed: <detail> (code: <rc>)".
ThrowMimerErrorDetail(rc, operation, detail) ==
  [pending |-> TRUE, message |-> "failed", structured |-> TRUE,
   mimerCode |-> rc, operation |-> operation, detail |-> detail]

\* ThrowMimerError with the default, empty detail.
ThrowMimerError(rc, operation) == ThrowMimerErrorDetail(rc, operation, <<>>)

\* Napi::Error::New(env, msg).ThrowAsJavaScriptException(): message only.
JsError(msg) ==
  [pending |-> TRUE, message |-> msg, structured |-> FALSE,
   mimerCode |-> 0, operation |-> "", detail |-> <<>>]

\* BindParameters and FetchSingleRow are not at work.
NoBind == [at |-> "idle"]
NoRow == [at |-> "idle"]

\* No statement with parameters is involved.
NoParams == [declared |-> 0, provided |-> 0]

\* `fields` lists the column numbers of the field descriptors (or of a row's
\* values) in array order; `handle` is the statement handle a returned
\* wrapper object holds.
RetVal(kind) ==
  [kind |-> kind, hasFields |-> FALSE, fields |-> <<>>, hasRows |-> FALSE,
   rows |-> 0, rowCount |-> 0, handle |-> 0]

RetFields(n) == [RetVal("array") EXCEPT !.fields = [k \in 1..n |-> k]]

RetRowCount(n) == [RetVal("result") EXCEPT !.rowCount = n]

RetRows(fields, nr) ==
  [kind |-> "result", hasFields |-> TRUE, fields |-> fields, hasRows |-> TRUE,
   rows |-> nr, rowCount |-> nr, handle |-> 0]

\* No operation is running: the caller has taken the last result.
NoOp == [name |-> "idle", target |-> 0]

\* What the JavaScript caller observes: a pending exception is thrown when
\* the native method returns, whatever value it returned.
Thrown == exc.pending

\* ------------------------------------------------------------ the engine
Req(fn, kind, h, arg) == [fn |-> fn, kind |-> kind, h |-> h, arg |-> arg]

Eng(live, cur, ended) == [live |-> live, cur |-> cur, ended |-> ended]

SessLive(h, nsess, ended) == h \in 1..nsess /\ h \notin ended

\* The engine's answer to one request on a handle: the call as logged, and
\* the handle state after it.  MimerEndStatement releases the statement (and
\* its cursor); MimerEndSession ends the session, whatever status it answers;
\* MimerOpenCursor (its `arg` is the status it answers) opens a cursor when
\* it succeeds.
EngineStep(r, e, nsess) ==
  LET wasLive == IF r.kind = "session" THEN SessLive(r.h, nsess, e.ended)
                 ELSE r.h \in e.live
      c == [fn |-> r.fn, kind |-> r.kind, h |-> r.h, arg |-> r.arg, live |-> wasLive]
      e2 == CASE r.fn = "MimerEndStatement" ->
                   Eng(e.live \ {r.h}, e.cur \ {r.h}, e.ended)
              [] r.fn = "MimerOpenCursor" /\ wasLive /\ r.arg >= 0 ->
                   Eng(e.live, e.cur \cup {r.h}, e.ended)
              [] r.fn = "MimerCloseCursor" ->
                   Eng(e.live, e.cur \ {r.h}, e.ended)
              [] r.fn = "MimerEndSession" ->
                   Eng(e.live, e.cur, e.ended \cup {r.h})
              [] OTHER -> e
  IN [call |-> c, eng |-> e2]

RECURSIVE RunFrom(_, _, _, _)
RunFrom(reqs, e, nsess, acc) ==
  IF reqs = <<>> THEN [log |-> acc, eng |-> e]
  ELSE LET s == EngineStep(Head(reqs), e, nsess)
       IN RunFrom(Tail(reqs), s.eng, nsess, Append(acc, s.call))

\* The requests of one operation, issued in order against the engine state `e`.
Run(reqs, e, nsess) == RunFrom(reqs, e, nsess, <<>>)

EngNow == Eng(liveH, curH, sessEnded)

RECURSIVE SetToSeq(_)
SetToSeq(S) ==
  IF S = {} THEN <<>>
  ELSE LET m == CHOOSE x \in S : \A y \in S : x <= y
       IN <<m>> \o SetToSeq(S \ {m})

\* ------------------------------------------------------------- wrappers
\* st: "none" (not created yet), "alive" (the caller holds the object) or
\* "destroyed" (garbage-collected).  parentConnection_ is TRUE for a pointer
\* to the connection and FALSE for nullptr.
NoStmt ==
  [st |-> "none", stmt_ |-> MIMERNULLHANDLE, columnCount_ |-> 0,
   closed_ |-> FALSE, parentConnection_ |-> FALSE]

NoRs ==
  [st |-> "none", stmt_ |-> MIMERNULLHANDLE, columnCount_ |-> 0,
   closed_ |-> FALSE, exhausted_ |-> FALSE, parentConnection_ |-> FALSE]

\* Variant of Invalidate that ends the handle but leaves closed_ as it was.
StmtInvalidateLeavesOpen(w) ==
  LET doEnd == ~w.closed_ /\ w.stmt_ # MIMERNULLHANDLE
  IN [w |-> [w EXCEPT !.stmt_ = IF doEnd THEN MIMERNULLHANDLE ELSE @,
                      !.parentConnection_ = FALSE],
      reqs |-> IF doEnd THEN <<Req("MimerEndStatement", "statement", w.stmt_, 0)>>
               ELSE <<>>,
      unregister |-> FALSE]

\* Variant of Invalidate that leaves parentConnection_ as it was.
StmtInvalidateKeepsParent(w) ==
  LET doEnd == ~w.closed_ /\ w.stmt_ # MIMERNULLHANDLE
  IN [w |-> [w EXCEPT !.stmt_ = IF doEnd THEN MIMERNULLHANDLE ELSE @,
                      !.closed_ = TRUE],
      reqs |-> IF doEnd THEN <<Req("MimerEndStatement", "statement", w.stmt_, 0)>>
               ELSE <<>>,
      unregister |-> FALSE]

\* MimerStmtWrapper::Invalidate: end the handle, never unregister.
StmtInvalidate(w) ==
  LET doEnd == ~w.closed_ /\ w.stmt_ # MIMERNULLHANDLE
  IN [w |-> [w EXCEPT !.stmt_ = IF doEnd THEN MIMERNULLHANDLE ELSE @,
                      !.closed_ = TRUE,
                      !.parentConnection_ = FALSE],
      reqs |-> IF doEnd THEN <<Req("MimerEndStatement", "statement", w.stmt_, 0)>>
               ELSE <<>>,
      unregister |-> FALSE]

\* Variant of CloseInternal that ends the handle whether or not the
\* statement is closed already.
StmtCloseInternalReleasesAgain(w) ==
  [w |-> [w EXCEPT !.stmt_ = MIMERNULLHANDLE,
                   !.closed_ = TRUE,
                   !.parentConnection_ = FALSE],
   reqs |-> <<Req("MimerEndStatement", "statement", w.stmt_, 0)>>,
   unregister |-> w.parentConnection_]

\* MimerStmtWrapper::CloseInternal: end the handle and unregister.
StmtCloseInternal(w) ==
  LET doEnd == ~w.closed_ /\ w.stmt_ # MIMERNULLHANDLE
  IN [w |-> [w EXCEPT !.stmt_ = IF doEnd THEN MIMERNULLHANDLE ELSE @,
                      !.closed_ = TRUE,
                      !.parentConnection_ = FALSE],
      reqs |-> IF doEnd THEN <<Req("MimerEndStatement", "statement", w.stmt_, 0)>>
               ELSE <<>>,
      unregister |-> w.parentConnection_]

\* Variant of the destructor that releases the handle and stays registered.
StmtDestructorStaysRegistered(w) ==
  LET doEnd == ~w.closed_ /\ w.stmt_ # MIMERNULLHANDLE
  IN [w |-> [NoStmt EXCEPT !.st = "destroyed"],
      reqs |-> IF doEnd THEN <<Req("MimerEndStatement", "statement", w.stmt_, 0)>>
               ELSE <<>>,
      unregister |-> FALSE]

\* MimerStmtWrapper::~MimerStmtWrapper: only an open statement is released
\* and unregistered.
StmtDestructor(w) ==
  LET doEnd == ~w.closed_ /\ w.stmt_ # MIMERNULLHANDLE
  IN [w |-> [NoStmt EXCEPT !.st = "destroyed"],
      reqs |-> IF doEnd THEN <<Req("MimerEndStatement", "statement", w.stmt_, 0)>>
               ELSE <<>>,
      unregister |-> doEnd /\ w.parentConnection_]

\* Variant of Invalidate that marks the result set closed without closing
\* the cursor or ending the handle.
RsInvalidateLeaksHandle(w) ==
  [w |-> [w EXCEPT !.stmt_ = MIMERNULLHANDLE,
                   !.closed_ = TRUE,
                   !.parentConnection_ = FALSE],
   reqs |-> <<>>,
   unregister |-> FALSE]

\* Variant of Invalidate that unregisters from the connection as
\* CloseInternal does.
RsInvalidateUnregisters(w) ==
  LET doEnd == ~w.closed_ /\ w.stmt_ # MIMERNULLHANDLE
  IN [w |-> [w EXCEPT !.stmt_ = IF doEnd THEN MIMERNULLHANDLE ELSE @,
                      !.closed_ = TRUE,
                      !.parentConnection_ = FALSE],
      reqs |-> IF doEnd
               THEN <<Req("MimerCloseCursor", "statement", w.stmt_, 0),
                      Req("MimerEndStatement", "statement", w.stmt_, 0)>>
               ELSE <<>>,
      unregister |-> w.parentConnection_]

\* MimerResultSetWrapper::Invalidate: close the cursor, end the handle,
\* never unregister.
RsInvalidate(w) ==
  LET doEnd == ~w.closed_ /\ w.stmt_ # MIMERNULLHANDLE
  IN [w |-> [w EXCEPT !.stmt_ = IF doEnd THEN MIMERNULLHANDLE ELSE @,
                      !.closed_ = TRUE,
                      !.parentConnection_ = FALSE],
      reqs |-> IF doEnd
               THEN <<Req("MimerCloseCursor", "statement", w.stmt_, 0),
                      Req("MimerEndStatement", "statement", w.stmt_, 0)>>
               ELSE <<>>,
      unregister |-> FALSE]

\* Variant of CloseInternal that marks the wrapper closed and unregisters it
\* without releasing the handle.
RsCloseInternalKeepsHandle(w) ==
  [w |-> [w EXCEPT !.closed_ = TRUE, !.parentConnection_ = FALSE],
   reqs |-> <<>>,
   unregister |-> w.parentConnection_]

\* MimerResultSetWrapper::CloseInternal: close the cursor, end the handle
\* and unregister.
RsCloseInternal(w) ==
  LET doEnd == ~w.closed_ /\ w.stmt_ # MIMERNULLHANDLE
  IN [w |-> [w EXCEPT !.stmt_ = IF doEnd THEN MIMERNULLHANDLE ELSE @,
                      !.closed_ = TRUE,
                      !.parentConnection_ = FALSE],
      reqs |-> IF doEnd
               THEN <<Req("MimerCloseCursor", "statement", w.stmt_, 0),
                      Req("MimerEndStatement", "statement", w.stmt_, 0)>>
               ELSE <<>>,
      unregister |-> w.parentConnection_]

\* ----------------------------------------------------------- the session
\* MimerConnection::GetErrorMessage: reads the error text through session_
\* when it is not null.
GetErrorMessage(sess) ==
  IF sess # MIMERNULLHANDLE
  THEN <<Req("MimerGetError8", "session", sess, 0)>>
  ELSE <<>>

\* MimerConnection::CheckError: a negative status leaves a structured
\* exception pending; the caller's code goes on after the call.
CheckError(rc, operation, sess) ==
  IF rc < 0
  THEN [exc |-> ThrowMimerError(rc, operation), reqs |-> GetErrorMessage(sess)]
  ELSE [exc |-> NoExc, reqs |-> <<>>]

RECURSIVE InvalidateResultSets(_)
\* for (auto* rs : openResultSets_) rs->Invalidate();
InvalidateResultSets(ids) ==
  IF ids = <<>> THEN <<>>
  ELSE RsInvalidate(rsets[Head(ids)]).reqs \o InvalidateResultSets(Tail(ids))

RECURSIVE InvalidateStatements(_)
\* for (auto* stmt : openStatements_) stmt->Invalidate();
InvalidateStatements(ids) ==
  IF ids = <<>> THEN <<>>
  ELSE StmtInvalidate(stmts[Head(ids)]).reqs \o InvalidateStatements(Tail(ids))

\* Variant of the teardown that ends the session handle first.
TeardownEndsSessionFirst(endIt) ==
  (IF endIt THEN <<Req("MimerEndSession", "session", session_, 0)>> ELSE <<>>)
    \o InvalidateResultSets(SetToSeq(openResultSets_))
    \o InvalidateStatements(SetToSeq(openStatements_))

\* The engine calls of a teardown: every registered result set, then every
\* registered statement, then (when `endIt`) the session handle.
TeardownReqs(endIt) ==
  InvalidateResultSets(SetToSeq(openResultSets_))
    \o InvalidateStatements(SetToSeq(openStatements_))
    \o (IF endIt THEN <<Req("MimerEndSession", "session", session_, 0)>> ELSE <<>>)

\* The wrappers after a teardown.
TeardownStmts ==
  [e \in Handles |-> IF e \in openStatements_ THEN StmtInvalidate(stmts[e]).w
                     ELSE stmts[e]]

TeardownRsets ==
  [e \in Handles |-> IF e \in openResultSets_ THEN RsInvalidate(rsets[e]).w
                     ELSE rsets[e]]

\* JavaScript runs one native method at a time: a method starts only once
\* the previous one has returned.
Idle == op = NoOp

InitSession ==
  /\ connAlive = TRUE
  /\ session_ = MIMERNULLHANDLE
  /\ connected_ = FALSE
  /\ openStatements_ = {}
  /\ openResultSets_ = {}
  /\ stmts = [e \in Handles |-> NoStmt]
  /\ rsets = [e \in Handles |-> NoRs]
  /\ nextSess = 0
  /\ sessEnded = {}
  /\ nextH = 0
  /\ liveH = {}
  /\ curH = {}
  /\ op = NoOp
  /\ ret = RetVal("undefined")
  /\ exc = NoExc
  /\ calls = <<>>
  /\ cascaded = {}
  /\ nulled = {}
  /\ sqlCols = 0
  /\ sqlParams = NoParams

Init ==
  /\ InitSession
  /\ binder = NoBind
  /\ marshaller = NoRow

\* The engine state after an operation's requests.
SetEngine(r) ==
  /\ calls' = r.log
  /\ liveH' = r.eng.live
  /\ curH' = r.eng.cur
  /\ sessEnded' = r.eng.ended

\* MimerConnection::Connect.  A failing MimerBeginSession8 hands out no
\* handle and leaves session_ as it was; a succeeding one overwrites it.
Connect ==
  /\ Idle
  /\ UNCHANGED helperVars
  /\ sqlCols' = 0
  /\ sqlParams' = NoParams
  /\ UNCHANGED <<cascaded, nulled>>
  /\ connAlive
  /\ op' = [name |-> "connect", target |-> 0]
  /\ \E rc \in {MIMER_SUCCESS} \cup NegRc :
       IF rc < 0
       THEN LET chk == CheckError(rc, "MimerBeginSession8", session_)
                r == Run(<<Req("MimerBeginSession8", "none", 0, 0)>> \o chk.reqs,
                         EngNow, nextSess)
            IN /\ SetEngine(r)
               /\ exc' = chk.exc
               /\ ret' = RetVal("undefined")
               /\ UNCHANGED <<connVars, entVars, nextSess, nextH>>
       ELSE /\ nextSess < MaxSess
            /\ nextSess' = nextSess + 1
            /\ session_' = nextSess + 1
            /\ connected_' = TRUE
            /\ calls' = <<[fn |-> "MimerBeginSession8", kind |-> "none", h |-> 0,
                           arg |-> 0, live |-> FALSE]>>
            /\ exc' = NoExc
            /\ ret' = RetVal("true")
            /\ UNCHANGED <<connAlive, openStatements_, openResultSets_, entVars,
                           sessEnded, nextH, liveH, curH>>

\* Variant of the clear that leaves the registry as it was.
ClearKeeps(registry) == registry

\* openResultSets_.clear() and openStatements_.clear()
Clear(registry) == {}

\* Variant of Close without the early return.
CloseNeverReturnsEarly == FALSE

\* MimerConnection::Close, the early return.
CloseReturnsEarly == ~connected_

\* Variant of the end of Close that leaves connected_ as it was.
CloseEndSessionStaysConnected(rc, cleared) ==
  IF session_ # MIMERNULLHANDLE
  THEN LET sessAfter == IF cleared THEN MIMERNULLHANDLE ELSE session_
           chk == CheckError(rc, "MimerEndSession", sessAfter)
       IN [session |-> sessAfter, connected |-> connected_, exc |-> chk.exc,
           reqs |-> chk.reqs]
  ELSE [session |-> session_, connected |-> connected_, exc |-> NoExc,
        reqs |-> <<>>]

\* MimerConnection::Close, the end of the session handle.  `rc` is the status
\* MimerEndSession answers and `cleared` whether it nulled session_: a
\* succeeding call always does.
CloseEndSession(rc, cleared) ==
  IF session_ # MIMERNULLHANDLE
  THEN LET sessAfter == IF cleared THEN MIMERNULLHANDLE ELSE session_
           chk == CheckError(rc, "MimerEndSession", sessAfter)
       IN [session |-> sessAfter, connected |-> FALSE, exc |-> chk.exc,
           reqs |-> chk.reqs]
  ELSE [session |-> session_, connected |-> connected_, exc |-> NoExc,
        reqs |-> <<>>]

\* MimerConnection::Close
Close ==
  /\ Idle
  /\ UNCHANGED helperVars
  /\ sqlCols' = 0
  /\ sqlParams' = NoParams
  /\ connAlive
  /\ op' = [name |-> "close", target |-> 0]
  /\ UNCHANGED nulled
  /\ IF CloseReturnsEarly
     THEN /\ ret' = RetVal("true")
          /\ exc' = NoExc
          /\ calls' = <<>>
          /\ UNCHANGED <<connVars, entVars, engVars, cascaded>>
     ELSE \E rc \in {MIMER_SUCCESS} \cup NegRc, cleared \in BOOLEAN :
          /\ (rc = MIMER_SUCCESS => cleared)
          /\ LET end == CloseEndSession(rc, cleared)
                 r == Run(TeardownReqs(session_ # MIMERNULLHANDLE) \o end.reqs,
                          EngNow, nextSess)
             IN /\ SetEngine(r)
                /\ stmts' = TeardownStmts
                /\ rsets' = TeardownRsets
                /\ cascaded' = cascaded \cup openResultSets_ \cup openStatements_
                /\ openResultSets_' = Clear(openResultSets_)
                /\ openStatements_' = Clear(openStatements_)
                /\ session_' = end.session
                /\ connected_' = end.connected
                /\ exc' = end.exc
                /\ ret' = RetVal("true")
                /\ UNCHANGED <<connAlive, nextSess, nextH>>

\* MimerConnection::~MimerConnection.  The object is gone afterwards: its
\* fields are reset to the constructor's values and no method runs on it.
ConnDestructor ==
  /\ Idle
  /\ UNCHANGED helperVars
  /\ sqlCols' = 0
  /\ sqlParams' = NoParams
  /\ UNCHANGED <<cascaded, nulled>>
  /\ connAlive
  /\ op' = [name |-> "~Connection", target |-> 0]
  /\ LET r == Run(TeardownReqs(connected_ /\ session_ # MIMERNULLHANDLE),
                  EngNow, nextSess)
     IN /\ SetEngine(r)
        /\ stmts' = TeardownStmts
        /\ rsets' = TeardownRsets
        /\ openResultSets_' = Clear(openResultSets_)
        /\ openStatements_' = Clear(openStatements_)
        /\ connAlive' = FALSE
        /\ session_' = MIMERNULLHANDLE
        /\ connected_' = FALSE
        /\ exc' = NoExc
        /\ ret' = RetVal("undefined")
        /\ UNCHANGED <<nextSess, nextH>>

\* ------------------------------------------------------------- helpers
\* BuildFieldsArray: name and type of every column, in column order.
BuildFieldsArray(h, n) ==
  [k \in 1..(2 * n) |->
     IF k % 2 = 1 THEN Req("MimerColumnName8", "statement", h, (k + 1) \div 2)
     ELSE Req("MimerColumnType", "statement", h, k \div 2)]

\* Variant of the fields array that lists the columns last to first.
FieldsArrayReversed(h, n) ==
  [k \in 1..n |-> BuildFieldsArray(h, n)[2 * (n + 1 - k) - 1].arg]

\* The fields array BuildFieldsArray returns: element k describes the column
\* whose name the k-th MimerColumnName8 call asked for.
FieldsArray(h, n) ==
  [k \in 1..n |-> BuildFieldsArray(h, n)[2 * k - 1].arg]

\* CacheColumnMetadata: the same two calls per column.
CacheColumnMetadata(h, n) ==
  [k \in 1..(2 * n) |->
     IF k % 2 = 1 THEN Req("MimerColumnName8", "statement", h, (k + 1) \div 2)
     ELSE Req("MimerColumnType", "statement", h, k \div 2)]

\* FetchSingleRow: one null test per column (the typed read that follows a
\* non-null answer uses the same handle and is not listed).
FetchSingleRow(h, n) ==
  [k \in 1..n |-> Req("MimerIsNull", "statement", h, k)]

RECURSIVE FetchLoop(_, _, _, _)
FetchLoop(h, n, rows, endRc) ==
  IF rows = 0 THEN <<Req("MimerFetch", "statement", h, endRc)>>
  ELSE <<Req("MimerFetch", "statement", h, MIMER_SUCCESS)>> \o FetchSingleRow(h, n)
         \o FetchLoop(h, n, rows - 1, endRc)

\* FetchResults: cache the metadata, then fetch until MimerFetch answers
\* anything but MIMER_SUCCESS: `rows` rows come before the answer `endRc`.
FetchResults(h, n, rows, endRc) ==
  CacheColumnMetadata(h, n) \o FetchLoop(h, n, rows, endRc)

\* Variant of BindParameters that goes on binding after a failing bind call.
BindParametersGoesOn(h, pc, provided, failAt) ==
  IF provided # pc
  THEN [exc |-> ThrowMimerErrorDetail(0, "BindParameters", <<pc, provided>>),
        reqs |-> <<Req("MimerParameterCount", "statement", h, pc)>>]
  ELSE [exc |-> IF failAt \in 1..provided
                THEN ThrowMimerErrorDetail(-1, "BindParameters", <<failAt>>)
                ELSE NoExc,
        reqs |-> <<Req("MimerParameterCount", "statement", h, pc)>>
                   \o [i \in 1..provided |-> Req("MimerSetParameter", "statement", h, i)]]

\* BindParameters, for a params array of `provided` values on a statement
\* for which the engine's MimerParameterCount answers `pc`; `failAt` is the
\* index whose bind call answers a negative status (0: none does).  The
\* detail of the error is <<pc, provided>> for a count mismatch and
\* <<failAt>> for a failing bind call.
BindParameters(h, pc, provided, failAt) ==
  IF provided # pc
  THEN [exc |-> ThrowMimerErrorDetail(0, "BindParameters", <<pc, provided>>),
        reqs |-> <<Req("MimerParameterCount", "statement", h, pc)>>]
  ELSE LET failing == failAt \in 1..provided
           last == IF failing THEN failAt ELSE provided
       IN [exc |-> IF failing
                   THEN ThrowMimerErrorDetail(-1, "BindParameters", <<failAt>>)
                   ELSE NoExc,
           reqs |-> <<Req("MimerParameterCount", "statement", h, pc)>>
                      \o [i \in 1..last |-> Req("MimerSetParameter", "statement", h, i)]]

\* Variant of the connection test that lets the call through as a success.
NotConnectedReturnsTrue ==
  /\ exc' = NoExc
  /\ ret' = RetVal("true")
  /\ calls' = <<>>
  /\ UNCHANGED <<connVars, entVars, engVars>>

\* if (!connected_) { Napi::Error::New(env, "Not connected to database")... }
NotConnected ==
  /\ exc' = JsError("Not connected to database")
  /\ ret' = RetVal("undefined")
  /\ calls' = <<>>
  /\ UNCHANGED <<connVars, entVars, engVars>>

\* An operation that fails after its engine calls `reqs`, changing no object.
FailWith(reqs, e) ==
  /\ SetEngine(Run(reqs, EngNow, nextSess))
  /\ exc' = e
  /\ ret' = RetVal("undefined")
  /\ UNCHANGED <<connVars, entVars, nextSess, nextH>>

\* Variant of the registration that forgets the statement.
RegisterStatementForgets(h) == openStatements_

\* openStatements_.insert(stmt)
RegisterStatement(h) == openStatements_ \cup {h}

\* MimerConnection::Prepare with MimerStmtWrapper::MimerStmtWrapper.
Prepare ==
  /\ Idle
  /\ UNCHANGED helperVars
  /\ UNCHANGED <<cascaded, nulled>>
  /\ connAlive
  /\ \/ /\ ~connected_
        /\ op' = [name |-> "prepare", target |-> 0]
        /\ sqlCols' = 0
        /\ sqlParams' = NoParams
        /\ NotConnected
     \/ /\ connected_
        /\ op' = [name |-> "prepare", target |-> 0]
        /\ sqlCols' = 0
        /\ sqlParams' = NoParams
        /\ \E rc \in NegRc \cup {MIMER_STATEMENT_CANNOT_BE_PREPARED} :
             FailWith(<<Req("MimerBeginStatement8", "session", session_, rc)>>,
                      ThrowMimerError(rc, "MimerBeginStatement8"))
     \/ /\ connected_
        /\ SessLive(session_, nextSess, sessEnded)
        /\ nextH < MaxHandles
        /\ \E cols \in {0, MaxCols} :
             LET h == nextH + 1
                 r == Run(<<Req("MimerBeginStatement8", "session", session_, 0),
                            Req("MimerColumnCount", "statement", h, cols)>>,
                          Eng(liveH \cup {h}, curH, sessEnded), nextSess)
             IN /\ SetEngine(r)
                /\ sqlCols' = cols
                /\ sqlParams' = NoParams
                /\ op' = [name |-> "prepare", target |-> h]
                /\ nextH' = h
                /\ stmts' = [stmts EXCEPT ![h] =
                     [st |-> "alive", stmt_ |-> h, columnCount_ |-> cols,
                      closed_ |-> FALSE, parentConnection_ |-> TRUE]]
                /\ openStatements_' = RegisterStatement(h)
                /\ exc' = NoExc
                /\ ret' = [RetVal("statement") EXCEPT !.handle = h]
                /\ UNCHANGED <<connAlive, session_, connected_, openResultSets_,
                               rsets, nextSess>>

\* A call that prepared handle h and released it again before returning:
\* the engine is free to hand the same handle out again.
Scoped(h, reqs, e, value) ==
  /\ SetEngine(Run(reqs, Eng(liveH \cup {h}, curH, sessEnded), nextSess))
  /\ exc' = e
  /\ ret' = value
  /\ UNCHANGED <<connVars, entVars, nextSess, nextH>>

\* Variant of the release that ends nothing.
ScopedReleaseLeaks(h) == <<>>

\* MimerEndStatement(&stmt) on a handle the call prepared itself.
ScopedRelease(h) == <<Req("MimerEndStatement", "statement", h, 0)>>

\* Variant of the registration that forgets the result set.
RegisterResultSetForgets(h) == openResultSets_

\* openResultSets_.insert(rs)
RegisterResultSet(h) == openResultSets_ \cup {h}

\* Variant of the test that lets every statement through.
ExecuteQueryAcceptsAll(cols) == FALSE

\* MimerConnection::ExecuteQuery: the test that rejects a statement without
\* result columns.
ExecuteQueryRejects(cols) == cols <= 0

\* What the engine answers when a statement with n result columns is
\* executed: `rc` is the status of MimerOpenCursor (n > 0) or of MimerExecute
\* (n = 0, the affected-row count when not negative), `rows` the number of
\* rows MimerFetch delivers and `endRc` the status that ends the fetch loop.
ExecAnswers(n) ==
  IF n > 0
  THEN {[rc |-> r, rows |-> 0, endRc |-> 100] : r \in NegRc}
         \cup {[rc |-> MIMER_SUCCESS, rows |-> k, endRc |-> x] :
                 k \in {0, MaxRows}, x \in FetchEnd}
  ELSE {[rc |-> r, rows |-> 0, endRc |-> 100] : r \in NegRc \cup {0, MaxRows}}

\* What the caller of execute or executeQuery passes and what the engine
\* answers up to the end of parameter binding: the column count of the
\* statement, the length of the params array, the parameter count the
\* statement declares (at most one off the length) and the index of the
\* bind call that fails (0: none).  An answer the call never asks for is
\* left at its default.
BindInputs ==
  {i \in [cols : {0, MaxCols}, provided : {0, MaxParams},
          pc : 0..(MaxParams + 1), failAt : {0, 1, MaxParams}] :
     /\ i.pc \in {i.provided - 1, i.provided, i.provided + 1}
     /\ i.failAt <= i.provided
     /\ (i.pc # i.provided => i.failAt = 0)}

\* MimerConnection::ExecuteQuery with MimerResultSetWrapper's constructor.
ExecuteQuery ==
  /\ Idle
  /\ UNCHANGED helperVars
  /\ UNCHANGED <<cascaded, nulled>>
  /\ connAlive
  /\ op' = [name |-> "executeQuery", target |-> 0]
  /\ \/ /\ ~connected_
        /\ sqlCols' = 0
        /\ sqlParams' = NoParams
        /\ NotConnected
     \/ /\ connected_
        /\ sqlCols' = 0
        /\ sqlParams' = NoParams
        /\ FailWith(<<Req("MimerBeginStatement8", "session", session_,
                          MIMER_STATEMENT_CANNOT_BE_PREPARED)>>,
                    JsError("queryCursor only supports SELECT statements (DDL cannot be prepared)"))
     \/ /\ connected_
        /\ sqlCols' = 0
        /\ sqlParams' = NoParams
        /\ \E rc \in NegRc :
             LET chk == CheckError(rc, "MimerBeginStatement8", session_)
             IN FailWith(<<Req("MimerBeginStatement8", "session", session_, rc)>>
                           \o chk.reqs, chk.exc)
     \/ /\ connected_
        /\ SessLive(session_, nextSess, sessEnded)
        /\ nextH < MaxHandles
        /\ \E i \in BindInputs, rc \in {MIMER_SUCCESS} \cup NegRc, ctorOk \in BOOLEAN :
             LET h == nextH + 1
                 cols == i.cols
                 begin == <<Req("MimerBeginStatement8", "session", session_,
                                MIMER_SUCCESS)>>
                 bind == IF i.provided > 0
                         THEN BindParameters(h, i.pc, i.provided, i.failAt)
                         ELSE [exc |-> NoExc, reqs |-> <<>>]
                 count == <<Req("MimerColumnCount", "statement", h, cols)>>
                 open == <<Req("MimerOpenCursor", "statement", h, rc)>>
                 chk == CheckError(rc, "MimerOpenCursor", session_)
             IN \* an engine answer the call never asks for is left at its default
                /\ (bind.exc.pending \/ cols = 0) => rc = MIMER_SUCCESS
                /\ (bind.exc.pending \/ cols = 0 \/ rc < 0) => ctorOk
                /\ sqlCols' = cols
                /\ sqlParams' = [declared |-> i.pc, provided |-> i.provided]
                /\ IF bind.exc.pending
                   THEN Scoped(h, begin \o bind.reqs \o ScopedRelease(h), bind.exc,
                               RetVal("undefined"))
                   ELSE IF ExecuteQueryRejects(cols)
                   THEN Scoped(h, begin \o bind.reqs \o count \o ScopedRelease(h),
                               JsError("queryCursor only supports SELECT statements (DML has no result columns)"),
                               RetVal("undefined"))
                   ELSE IF rc < 0
                   THEN Scoped(h, begin \o bind.reqs \o count \o open \o chk.reqs
                                  \o ScopedRelease(h),
                               chk.exc, RetVal("undefined"))
                   ELSE IF ~ctorOk
                   THEN Scoped(h, begin \o bind.reqs \o count \o open
                                  \o <<Req("MimerCloseCursor", "statement", h, 0)>>
                                  \o ScopedRelease(h),
                               JsError("ResultSet construction failed"),
                               RetVal("undefined"))
                   ELSE /\ SetEngine(Run(begin \o bind.reqs \o count \o open
                                           \o CacheColumnMetadata(h, cols),
                                         Eng(liveH \cup {h}, curH, sessEnded),
                                         nextSess))
                        /\ nextH' = h
                        /\ rsets' = [rsets EXCEPT ![h] =
                             [st |-> "alive", stmt_ |-> h, columnCount_ |-> cols,
                              closed_ |-> FALSE, exhausted_ |-> FALSE,
                              parentConnection_ |-> TRUE]]
                        /\ openResultSets_' = RegisterResultSet(h)
                        /\ exc' = NoExc
                        /\ ret' = [RetVal("resultset") EXCEPT !.handle = h]
                        /\ UNCHANGED <<connAlive, session_, connected_,
                                       openStatements_, stmts, nextSess>>

\* Variant of the fallback that reports success whatever the engine answers.
ExecuteFallbackIgnoresError(rc) ==
  [exc |-> NoExc,
   reqs |-> <<Req("MimerExecuteStatement8", "session", session_, rc)>>,
   value |-> RetRowCount(0)]

\* MimerConnection::Execute when the statement cannot be prepared: one
\* MimerExecuteStatement8 call, whose status is `rc`.
ExecuteFallback(rc) ==
  LET chk == CheckError(rc, "MimerExecuteStatement8", session_)
  IN [exc |-> chk.exc,
      reqs |-> <<Req("MimerExecuteStatement8", "session", session_, rc)>>
                 \o chk.reqs,
      value |-> IF rc < 0 THEN RetVal("undefined") ELSE RetRowCount(0)]

\* MimerConnection::Execute after the parameters are bound: with result
\* columns, the fields, the cursor and every row; without, MimerExecute.
ExecuteBody(h, n, a) ==
  IF n > 0
  THEN IF a.rc < 0
       THEN LET chk == CheckError(a.rc, "MimerOpenCursor", session_)
            IN [exc |-> chk.exc,
                reqs |-> BuildFieldsArray(h, n)
                           \o <<Req("MimerOpenCursor", "statement", h, a.rc)>>
                           \o chk.reqs,
                value |-> RetVal("undefined")]
       ELSE [exc |-> NoExc,
             reqs |-> BuildFieldsArray(h, n)
                        \o <<Req("MimerOpenCursor", "statement", h, a.rc)>>
                        \o FetchResults(h, n, a.rows, a.endRc),
             value |-> RetRows(FieldsArray(h, n), a.rows)]
  ELSE IF a.rc < 0
       THEN LET chk == CheckError(a.rc, "MimerExecute", session_)
            IN [exc |-> chk.exc,
                reqs |-> <<Req("MimerExecute", "statement", h, a.rc)>> \o chk.reqs,
                value |-> RetVal("undefined")]
       ELSE [exc |-> NoExc,
             reqs |-> <<Req("MimerExecute", "statement", h, a.rc)>>,
             value |-> RetRowCount(a.rc)]

\* MimerConnection::Execute
Execute ==
  /\ Idle
  /\ UNCHANGED helperVars
  /\ UNCHANGED <<cascaded, nulled>>
  /\ connAlive
  /\ op' = [name |-> "execute", target |-> 0]
  /\ \/ /\ ~connected_
        /\ sqlCols' = 0
        /\ sqlParams' = NoParams
        /\ NotConnected
     \/ /\ connected_
        /\ sqlCols' = 0
        /\ sqlParams' = NoParams
        /\ \E rc \in {MIMER_SUCCESS} \cup NegRc :
             LET f == ExecuteFallback(rc)
             IN /\ SetEngine(Run(<<Req("MimerBeginStatement8", "session", session_,
                                       MIMER_STATEMENT_CANNOT_BE_PREPARED)>>
                                   \o f.reqs, EngNow, nextSess))
                /\ exc' = f.exc
                /\ ret' = f.value
                /\ UNCHANGED <<connVars, entVars, nextSess, nextH>>
     \/ /\ connected_
        /\ sqlCols' = 0
        /\ sqlParams' = NoParams
        /\ \E rc \in NegRc :
             LET chk == CheckError(rc, "MimerBeginStatement8", session_)
             IN FailWith(<<Req("MimerBeginStatement8", "session", session_, rc)>>
                           \o chk.reqs, chk.exc)
     \/ /\ connected_
        /\ SessLive(session_, nextSess, sessEnded)
        /\ \E i \in BindInputs :
           \E a \in ExecAnswers(i.cols) :
             LET h == nextH + 1
                 begin == <<Req("MimerBeginStatement8", "session", session_,
                                MIMER_SUCCESS)>>
                 bind == IF i.provided > 0
                         THEN BindParameters(h, i.pc, i.provided, i.failAt)
                         ELSE [exc |-> NoExc, reqs |-> <<>>]
                 count == <<Req("MimerColumnCount", "statement", h, i.cols)>>
                 body == ExecuteBody(h, i.cols, a)
             IN \* an engine answer the call never asks for is left at its default
                /\ bind.exc.pending => a.rc \in NegRc
                /\ sqlCols' = i.cols
                /\ sqlParams' = [declared |-> i.pc, provided |-> i.provided]
                /\ IF bind.exc.pending
                   THEN Scoped(h, begin \o bind.reqs \o ScopedRelease(h), bind.exc,
                               RetVal("undefined"))
                   ELSE Scoped(h, begin \o bind.reqs \o count \o body.reqs
                                  \o ScopedRelease(h),
                               body.exc, body.value)

\* A transaction call: BeginTransaction returns at once on a negative
\* status, Commit and Rollback go on to `return true` with the exception
\* pending.
Transaction(name, fn, operation, value) ==
  /\ Idle
  /\ UNCHANGED helperVars
  /\ sqlCols' = 0
  /\ sqlParams' = NoParams
  /\ UNCHANGED <<cascaded, nulled>>
  /\ connAlive
  /\ op' = [name |-> name, target |-> 0]
  /\ \/ /\ ~connected_
        /\ NotConnected
     \/ /\ connected_
        /\ \E rc \in {MIMER_SUCCESS} \cup NegRc :
             LET chk == CheckError(rc, operation, session_)
             IN /\ SetEngine(Run(<<Req(fn, "session", session_, rc)>> \o chk.reqs,
                                 EngNow, nextSess))
                /\ exc' = chk.exc
                /\ ret' = IF rc < 0 THEN RetVal(value) ELSE RetVal("true")
                /\ UNCHANGED <<connVars, entVars, nextSess, nextH>>

BeginTransaction ==
  Transaction("beginTransaction", "MimerBeginTransaction", "MimerBeginTransaction",
              "undefined")

Commit ==
  Transaction("commit", "MimerEndTransaction", "MimerEndTransaction (commit)", "true")

Rollback ==
  Transaction("rollback", "MimerEndTransaction", "MimerEndTransaction (rollback)", "true")

\* MimerConnection::IsConnected
IsConnected ==
  /\ Idle
  /\ UNCHANGED helperVars
  /\ sqlCols' = 0
  /\ sqlParams' = NoParams
  /\ UNCHANGED <<cascaded, nulled>>
  /\ connAlive
  /\ op' = [name |-> "isConnected", target |-> 0]
  /\ ret' = RetVal(IF connected_ THEN "true" ELSE "false")
  /\ exc' = NoExc
  /\ calls' = <<>>
  /\ UNCHANGED <<connVars, entVars, engVars>>

\* ------------------------------------------------------------ statement
\* An operation that succeeds after its engine calls `reqs`, changing no object.
Succeed(reqs, value) ==
  /\ SetEngine(Run(reqs, EngNow, nextSess))
  /\ exc' = NoExc
  /\ ret' = value
  /\ UNCHANGED <<connVars, entVars, nextSess, nextH>>

\* Variant of the statement's execution that leaves the cursor open.
StmtExecuteBodyLeavesCursor(h, n, a) ==
  IF n > 0
  THEN IF a.rc < 0
       THEN [exc |-> ThrowMimerError(a.rc, "MimerOpenCursor"),
             reqs |-> BuildFieldsArray(h, n)
                        \o <<Req("MimerOpenCursor", "statement", h, a.rc)>>,
             value |-> RetVal("undefined")]
       ELSE [exc |-> NoExc,
             reqs |-> BuildFieldsArray(h, n)
                        \o <<Req("MimerOpenCursor", "statement", h, a.rc)>>
                        \o FetchResults(h, n, a.rows, a.endRc),
             value |-> RetRows(FieldsArray(h, n), a.rows)]
  ELSE IF a.rc < 0
       THEN [exc |-> ThrowMimerError(a.rc, "MimerExecute"),
             reqs |-> <<Req("MimerExecute", "statement", h, a.rc)>>,
             value |-> RetVal("undefined")]
       ELSE [exc |-> NoExc,
             reqs |-> <<Req("MimerExecute", "statement", h, a.rc)>>,
             value |-> RetRowCount(a.rc)]

\* MimerStmtWrapper::Execute after the parameters are bound: with result
\* columns, the fields, the cursor, every row, then MimerCloseCursor;
\* without, MimerExecute.
StmtExecuteBody(h, n, a) ==
  IF n > 0
  THEN IF a.rc < 0
       THEN [exc |-> ThrowMimerError(a.rc, "MimerOpenCursor"),
             reqs |-> BuildFieldsArray(h, n)
                        \o <<Req("MimerOpenCursor", "statement", h, a.rc)>>,
             value |-> RetVal("undefined")]
       ELSE [exc |-> NoExc,
             reqs |-> BuildFieldsArray(h, n)
                        \o <<Req("MimerOpenCursor", "statement", h, a.rc)>>
                        \o FetchResults(h, n, a.rows, a.endRc)
                        \o <<Req("MimerCloseCursor", "statement", h, 0)>>,
             value |-> RetRows(FieldsArray(h, n), a.rows)]
  ELSE IF a.rc < 0
       THEN [exc |-> ThrowMimerError(a.rc, "MimerExecute"),
             reqs |-> <<Req("MimerExecute", "statement", h, a.rc)>>,
             value |-> RetVal("undefined")]
       ELSE [exc |-> NoExc,
             reqs |-> <<Req("MimerExecute", "statement", h, a.rc)>>,
             value |-> RetRowCount(a.rc)]

\* Variant of Execute that never rejects a closed statement.
StmtExecuteAcceptsClosed(w) == FALSE

\* MimerStmtWrapper::Execute: the test that rejects a closed statement.
StmtExecuteRejects(w) == w.closed_

\* MimerStmtWrapper::Execute
StmtExecute(e) ==
  /\ Idle
  /\ UNCHANGED helperVars
  /\ sqlCols' = 0
  /\ UNCHANGED <<cascaded, nulled>>
  /\ stmts[e].st = "alive"
  /\ op' = [name |-> "Statement.execute", target |-> e]
  /\ LET w == stmts[e]
         h == w.stmt_
         n == w.columnCount_
     IN IF StmtExecuteRejects(w)
        THEN /\ sqlParams' = NoParams
             /\ FailWith(<<>>, JsError("Statement is closed"))
        ELSE \E i \in BindInputs :
             \E a \in ExecAnswers(n) :
               LET bind == IF i.provided > 0
                           THEN BindParameters(h, i.pc, i.provided, i.failAt)
                           ELSE [exc |-> NoExc, reqs |-> <<>>]
                   body == StmtExecuteBody(h, n, a)
               IN \* an answer the call never asks for is left at its default
                  /\ i.cols = n
                  /\ bind.exc.pending => a.rc \in NegRc
                  /\ sqlParams' = [declared |-> i.pc, provided |-> i.provided]
                  /\ IF bind.exc.pending
                     THEN FailWith(bind.reqs, bind.exc)
                     ELSE IF body.exc.pending
                     THEN FailWith(bind.reqs \o body.reqs, body.exc)
                     ELSE Succeed(bind.reqs \o body.reqs, body.value)

\* A wrapper's close, invalidate or destructor result `c` applied to the
\* engine and to the connection's registries.
Release(c, isStmt, e) ==
  LET r == Run(c.reqs, EngNow, nextSess)
  IN /\ SetEngine(r)
     /\ stmts' = IF isStmt THEN [stmts EXCEPT ![e] = c.w] ELSE stmts
     /\ rsets' = IF isStmt THEN rsets ELSE [rsets EXCEPT ![e] = c.w]
     /\ openStatements_' = IF isStmt /\ c.unregister THEN openStatements_ \ {e}
                           ELSE openStatements_
     /\ openResultSets_' = IF ~isStmt /\ c.unregister THEN openResultSets_ \ {e}
                           ELSE openResultSets_
     /\ exc' = NoExc
     /\ UNCHANGED <<connAlive, session_, connected_, nextSess, nextH>>

\* MimerStmtWrapper::Close
StmtClose(e) ==
  /\ Idle
  /\ UNCHANGED helperVars
  /\ sqlCols' = 0
  /\ sqlParams' = NoParams
  /\ UNCHANGED <<cascaded, nulled>>
  /\ stmts[e].st = "alive"
  /\ op' = [name |-> "Statement.close", target |-> e]
  /\ Release(StmtCloseInternal(stmts[e]), TRUE, e)
  /\ ret' = RetVal("true")

\* Garbage collection of a statement object.
StmtGc(e) ==
  /\ Idle
  /\ UNCHANGED helperVars
  /\ sqlCols' = 0
  /\ sqlParams' = NoParams
  /\ cascaded' = cascaded \ {e}
  /\ nulled' = nulled \ {e}
  /\ stmts[e].st = "alive"
  /\ op' = [name |-> "~Statement", target |-> e]
  /\ Release(StmtDestructor(stmts[e]), TRUE, e)
  /\ ret' = RetVal("undefined")

\* ----------------------------------------------------------- result set
\* Variant of the test that looks at exhausted_ only.
FetchNextDoneIgnoresClosed(w) == w.exhausted_

\* MimerResultSetWrapper::FetchNext returns null at once when this holds.
FetchNextDone(w) == w.closed_ \/ w.exhausted_

\* Variant of FetchNext that records the end of the data but not an error.
FetchNextAfterIgnoresError(w, rc) ==
  IF rc = MIMER_SUCCESS \/ rc < 0 THEN w ELSE [w EXCEPT !.exhausted_ = TRUE]

\* Variant of FetchNext that never records the end of the data.
FetchNextAfterForgets(w, rc) == w

\* The wrapper after MimerFetch answered rc.
FetchNextAfter(w, rc) ==
  IF rc = MIMER_SUCCESS THEN w ELSE [w EXCEPT !.exhausted_ = TRUE]

\* MimerResultSetWrapper::FetchNext
FetchNext(e) ==
  /\ Idle
  /\ UNCHANGED helperVars
  /\ sqlCols' = 0
  /\ sqlParams' = NoParams
  /\ rsets[e].st = "alive"
  /\ op' = [name |-> "ResultSet.fetchNext", target |-> e]
  /\ exc' = NoExc
  /\ LET w == rsets[e]
     IN IF FetchNextDone(w)
        THEN /\ ret' = RetVal("null")
             /\ calls' = <<>>
             /\ UNCHANGED <<connVars, entVars, engVars>>
        ELSE \E rc \in {MIMER_SUCCESS} \cup FetchEnd :
             /\ SetEngine(Run(<<Req("MimerFetch", "statement", w.stmt_, rc)>>
                                \o (IF rc = MIMER_SUCCESS
                                    THEN FetchSingleRow(w.stmt_, w.columnCount_)
                                    ELSE <<>>),
                              EngNow, nextSess))
             /\ rsets' = [rsets EXCEPT ![e] = FetchNextAfter(w, rc)]
             /\ ret' = IF rc = MIMER_SUCCESS
                       THEN [RetVal("row") EXCEPT
                               !.fields = [k \in 1..w.columnCount_ |-> k]]
                       ELSE RetVal("null")
             /\ UNCHANGED <<connVars, stmts, nextSess, nextH>>
  /\ nulled' = IF ret'.kind = "null" THEN nulled \cup {e} ELSE nulled
  /\ UNCHANGED cascaded

\* MimerResultSetWrapper::GetFields
GetFields(e) ==
  /\ Idle
  /\ UNCHANGED helperVars
  /\ sqlCols' = 0
  /\ sqlParams' = NoParams
  /\ UNCHANGED <<cascaded, nulled>>
  /\ rsets[e].st = "alive"
  /\ op' = [name |-> "ResultSet.getFields", target |-> e]
  /\ LET w == rsets[e]
     IN IF w.closed_
        THEN Succeed(<<>>, RetFields(0))
        ELSE Succeed(BuildFieldsArray(w.stmt_, w.columnCount_),
                     [RetVal("array") EXCEPT
                        !.fields = FieldsArray(w.stmt_, w.columnCount_)])

\* MimerResultSetWrapper::Close
RsClose(e) ==
  /\ Idle
  /\ UNCHANGED helperVars
  /\ sqlCols' = 0
  /\ sqlParams' = NoParams
  /\ UNCHANGED <<cascaded, nulled>>
  /\ rsets[e].st = "alive"
  /\ op' = [name |-> "ResultSet.close", target |-> e]
  /\ Release(RsCloseInternal(rsets[e]), FALSE, e)
  /\ ret' = RetVal("true")

\* MimerResultSetWrapper::IsClosed
IsClosed(e) ==
  /\ Idle
  /\ UNCHANGED helperVars
  /\ sqlCols' = 0
  /\ sqlParams' = NoParams
  /\ UNCHANGED <<cascaded, nulled>>
  /\ rsets[e].st = "alive"
  /\ op' = [name |-> "ResultSet.isClosed", target |-> e]
  /\ Succeed(<<>>, RetVal(IF rsets[e].closed_ THEN "true" ELSE "false"))

\* MimerResultSetWrapper::~MimerResultSetWrapper: CloseInternal, then the
\* object is gone.
RsDestructor(w) ==
  [w |-> [NoRs EXCEPT !.st = "destroyed"],
   reqs |-> RsCloseInternal(w).reqs,
   unregister |-> RsCloseInternal(w).unregister]

\* Garbage collection of a result-set object.
RsGc(e) ==
  /\ Idle
  /\ UNCHANGED helperVars
  /\ sqlCols' = 0
  /\ sqlParams' = NoParams
  /\ cascaded' = cascaded \ {e}
  /\ nulled' = nulled \ {e}
  /\ rsets[e].st = "alive"
  /\ op' = [name |-> "~ResultSet", target |-> e]
  /\ Release(RsDestructor(rsets[e]), FALSE, e)
  /\ ret' = RetVal("undefined")

\* The native method returns: the caller takes its value or its exception.
Return ==
  /\ ~Idle
  /\ UNCHANGED helperVars
  /\ sqlCols' = 0
  /\ sqlParams' = NoParams
  /\ UNCHANGED <<cascaded, nulled>>
  /\ op' = NoOp
  /\ ret' = RetVal("undefined")
  /\ exc' = NoExc
  /\ calls' = <<>>
  /\ UNCHANGED <<connVars, entVars, engVars>>

Next ==
  \/ Return
  \/ Connect
  \/ Close
  \/ ConnDestructor
  \/ Prepare
  \/ ExecuteQuery
  \/ Execute
  \/ BeginTransaction
  \/ Commit
  \/ Rollback
  \/ IsConnected
  \/ \E e \in Handles : StmtExecute(e)
  \/ \E e \in Handles : StmtClose(e)
  \/ \E e \in Handles : StmtGc(e)
  \/ \E e \in Handles : FetchNext(e)
  \/ \E e \in Handles : GetFields(e)
  \/ \E e \in Handles : RsClose(e)
  \/ \E e \in Handles : IsClosed(e)
  \/ \E e \in Handles : RsGc(e)

Spec == Init /\ [][Next]_vars

\* ============================================= BindParameters, value by value
\* One pass of the loop body of BindParameters (helpers.cc 198-277) over one
\* parameter value: the dispatch on the kind of the value, then, for a large
\* object, one step per iteration of the write loop.

\* A byte string of n bytes counting up from `first`.
Bytes(first, n) == [k \in 1..n |-> (first + k - 1) % 256]

\* The UTF-8 encodings of U+0041, U+00E9, U+20AC and U+1F600: one code point
\* of each encoded length.
CodePoints == {<<65>>, <<195, 169>>, <<226, 130, 172>>, <<240, 159, 152, 128>>}

RECURSIVE TextsOf(_)
\* The well-formed UTF-8 strings of exactly n code points.
TextsOf(n) ==
  IF n = 0 THEN {<<>>}
  ELSE {t \o c : t \in TextsOf(n - 1), c \in CodePoints}

\* The well-formed UTF-8 strings of at most MaxChars code points.
Texts == UNION {TextsOf(n) : n \in 0..MaxChars}

\* Binary payloads of up to MaxBytes bytes, with and without bytes that look
\* like UTF-8 continuation bytes.
Buffers == {Bytes(f, n) : f \in {0, 127}, n \in 0..MaxBytes}

\* A JavaScript number: NaN, an infinity, the finite value
\* hi * 2^16 + lo (0 <= lo < 2^16), plus one half when `half` is set, or a
\* finite whole number of 2^63 or more ("huge", such as 1e19) or below
\* -2^63 ("-huge").
Num(cls, hi, lo, half) == [cls |-> cls, hi |-> hi, lo |-> lo, half |-> half]

Finite(hi, lo, half) == Num("finite", hi, lo, half)

INT32_MIN == Finite(-32768, 0, FALSE)
INT32_MAX == Finite(32767, 65535, FALSE)

\* The whole numbers at and next to the limits of a 32-bit integer, small
\* ones and one beyond 2^32.
WholeNumbers ==
  {Finite(-32769, 65535, FALSE), INT32_MIN, Finite(-32768, 1, FALSE),
   Finite(-1, 65535, FALSE), Finite(0, 0, FALSE), Finite(0, 1, FALSE),
   Finite(32767, 65534, FALSE), INT32_MAX, Finite(32768, 0, FALSE),
   Finite(70000, 0, FALSE), Finite(-70000, 0, FALSE)}

\* The whole numbers no 64-bit integer holds.
HugeNumbers == {Num("huge", 0, 0, FALSE), Num("-huge", 0, 0, FALSE)}

Numbers ==
  WholeNumbers
    \cup HugeNumbers
    \cup {[n EXCEPT !.half = TRUE] : n \in WholeNumbers}
    \cup {Num("nan", 0, 0, FALSE), Num("inf", 0, 0, FALSE), Num("-inf", 0, 0, FALSE)}

\* a <= b on finite numbers.
NumLeq(a, b) ==
  IF a.cls = "-huge" \/ b.cls = "huge" THEN TRUE
  ELSE IF a.cls = "huge" \/ b.cls = "-huge" THEN FALSE
  ELSE \/ a.hi < b.hi
       \/ a.hi = b.hi /\ a.lo < b.lo
       \/ a.hi = b.hi /\ a.lo = b.lo /\ (b.half \/ ~a.half)

\* The C++ comparison a == b on doubles: NaN equals nothing.
NumEq(a, b) == a.cls # "nan" /\ b.cls # "nan" /\ a = b

\* std::trunc: towards zero; NaN and the infinities are returned as they are.
Trunc(n) ==
  IF n.cls # "finite" \/ ~n.half THEN n
  ELSE IF n.hi >= 0 THEN Finite(n.hi, n.lo, FALSE)
  ELSE IF n.lo = 65535 THEN Finite(n.hi + 1, 0, FALSE)
  ELSE Finite(n.hi, n.lo + 1, FALSE)

\* std::isfinite
IsFinite(n) == n.cls \in {"finite", "huge", "-huge"}

\* A JavaScript value: its kind, and the boolean, the number or the bytes it
\* holds (for an object, a bigint or a symbol, the bytes of its string form).
JsVal(kind, b, num, bytes) == [kind |-> kind, b |-> b, num |-> num, bytes |-> bytes]

JsValues ==
  {JsVal(k, FALSE, Finite(0, 0, FALSE), <<>>) : k \in {"null", "undefined"}}
    \cup {JsVal("boolean", b, Finite(0, 0, FALSE), <<>>) : b \in BOOLEAN}
    \cup {JsVal("number", FALSE, n, <<>>) : n \in Numbers}
    \cup {JsVal("string", FALSE, Finite(0, 0, FALSE), t) : t \in Texts}
    \cup {JsVal("buffer", FALSE, Finite(0, 0, FALSE), d) : d \in Buffers}
    \cup {JsVal(k, FALSE, Finite(0, 0, FALSE), t) :
            k \in {"object", "bigint"}, t \in TextsOf(1)}

\* Napi::Value::IsNull, IsUndefined, IsBoolean, IsNumber, IsString, IsBuffer
IsNull(v) == v.kind = "null"
IsUndefined(v) == v.kind = "undefined"
IsBoolean(v) == v.kind = "boolean"
IsNumber(v) == v.kind = "number"
IsString(v) == v.kind = "string"
IsBuffer(v) == v.kind = "buffer"

\* What MimerParameterType answers, as the answers of the two type tests
\* BindParameters applies to it.
ParamTypes == [isNclob : BOOLEAN, isBlob : BOOLEAN]
MimerIsNclob(ptype) == ptype.isNclob
MimerIsBlob(ptype) == ptype.isBlob

\* (c & 0xC0) == 0x80: a UTF-8 continuation byte.
IsContinuation(c) == (c \div 64) % 4 = 2

RECURSIVE Utf8CharCountFrom(_, _)
Utf8CharCountFrom(s, i) ==
  IF i >= Len(s) THEN 0
  ELSE LET c == s[i + 1]
       IN 1 + Utf8CharCountFrom(s, IF c < 128 THEN i + 1
                                   ELSE IF (c \div 32) % 8 = 6 THEN i + 2
                                   ELSE IF (c \div 16) % 16 = 14 THEN i + 3
                                   ELSE i + 4)

\* Utf8CharCount: the number of code points, counted from the lead bytes.
Utf8CharCount(s) == Utf8CharCountFrom(s, 0)

\* One engine call of the binder: the function, its value argument and the
\* status it answered.
BindCall(fn, arg, rc) == [fn |-> fn, arg |-> arg, rc |-> rc]

\* Variant of the range test that excludes the two limits.
InInt32RangeExclusive(num) ==
  ~NumLeq(num, INT32_MIN) /\ ~NumLeq(INT32_MAX, num)

\* num >= INT32_MIN && num <= INT32_MAX
InInt32Range(num) == NumLeq(INT32_MIN, num) /\ NumLeq(num, INT32_MAX)

\* static_cast<int32_t>(num) of a whole number within the 32-bit range.
StaticCastInt32(num) == num.hi * 65536 + num.lo

\* A 64-bit integer, as four 16-bit words in two's complement: w3 is
\* signed, and the value is ((w3 * 2^16 + w2) * 2^16 + w1) * 2^16 + w0.
Int64(w3, w2, w1, w0) == [w3 |-> w3, w2 |-> w2, w1 |-> w1, w0 |-> w0]

INT64_MIN == Int64(-32768, 0, 0, 0)
INT64_MAX == Int64(32767, 65535, 65535, 65535)

\* What a conversion of a double outside the range of int64_t can yield:
\* the behaviour is undefined; x86-64 yields INT64_MIN, AArch64 saturates.
Int64Undefined == {INT64_MIN, INT64_MAX}

\* The doubles whose whole part an int64_t holds.
InInt64Range(num) == num.cls = "finite"

\* static_cast<int64_t>(num) of a whole number; `ub` is what the
\* conversion yields when the number is out of range.
StaticCastInt64(num, ub) ==
  IF InInt64Range(num)
  THEN Int64(IF num.hi < 0 THEN -1 ELSE 0, (num.hi \div 65536) % 65536,
             num.hi % 65536, num.lo)
  ELSE ub

\* The bind call BindParameters chooses for a number.
BindNumber(num, rc, ub) ==
  IF NumEq(Trunc(num), num) /\ IsFinite(num)
  THEN IF InInt32Range(num)
       THEN BindCall("MimerSetInt32", StaticCastInt32(num), rc)
       ELSE BindCall("MimerSetInt64", StaticCastInt64(num, ub), rc)
  ELSE BindCall("MimerSetDouble", num, rc)

\* Variant of the test on a text's parameter type that never streams.
TextIsStreamedNever(ptype) == FALSE

\* if (MimerIsNclob(ptype)) for a string value.
TextIsStreamed(ptype) == MimerIsNclob(ptype)

\* if (MimerIsBlob(ptype)) for a Buffer value.
BinaryIsStreamed(ptype) == MimerIsBlob(ptype)

\* The calls of BindParameters for the value v up to the write loop, the
\* last of them answering rc, and the write loop that follows ("none" when
\* the value is no large object); `ub` is the outcome of an undefined
\* conversion to int64_t.
BindValue(v, ptype, rc, ub) ==
  IF IsNull(v) \/ IsUndefined(v)
  THEN [calls |-> <<BindCall("MimerSetNull", <<>>, rc)>>, lob |-> "none"]
  ELSE IF IsBoolean(v)
  THEN [calls |-> <<BindCall("MimerSetBoolean", IF v.b THEN 1 ELSE 0, rc)>>,
        lob |-> "none"]
  ELSE IF IsNumber(v)
  THEN [calls |-> <<BindNumber(v.num, rc, ub)>>, lob |-> "none"]
  ELSE IF IsString(v)
  THEN IF TextIsStreamed(ptype)
       THEN [calls |-> <<BindCall("MimerParameterType", <<>>, 0),
                         BindCall("MimerSetLob", Utf8CharCount(v.bytes), rc)>>,
             lob |-> "nclob"]
       ELSE [calls |-> <<BindCall("MimerParameterType", <<>>, 0),
                         BindCall("MimerSetString8", v.bytes, rc)>>,
             lob |-> "none"]
  ELSE IF IsBuffer(v)
  THEN IF BinaryIsStreamed(ptype)
       THEN [calls |-> <<BindCall("MimerParameterType", <<>>, 0),
                         BindCall("MimerSetLob", Len(v.bytes), rc)>>,
             lob |-> "blob"]
       ELSE [calls |-> <<BindCall("MimerParameterType", <<>>, 0),
                         BindCall("MimerSetBinary", v.bytes, rc)>>,
             lob |-> "none"]
  ELSE [calls |-> <<BindCall("MimerSetString8", v.bytes, rc)>>, lob |-> "none"]

\* size_t chunk = remaining < LOB_WRITE_CHUNK ? remaining : LOB_WRITE_CHUNK
NominalChunk(remaining) ==
  IF remaining < LOB_WRITE_CHUNK THEN remaining ELSE LOB_WRITE_CHUNK

\* Variant of the boundary search that keeps the nominal chunk.
ShrinkNever(data, offset, chunk, remaining) == chunk

RECURSIVE Shrink(_, _, _, _)
\* while (chunk > 0 && chunk < remaining
\*        && (data[offset + chunk] & 0xC0) == 0x80) chunk--;
Shrink(data, offset, chunk, remaining) ==
  IF chunk > 0 /\ chunk < remaining /\ IsContinuation(data[offset + chunk + 1])
  THEN Shrink(data, offset, chunk - 1, remaining)
  ELSE chunk

\* Variant of the chunk that always starts at the beginning of the data.
ChunkDataFromStart(data, offset, chunk) == SubSeq(data, 1, chunk)

\* The `chunk` bytes at data + offset.
ChunkData(data, offset, chunk) == SubSeq(data, offset + 1, offset + chunk)

\* The statuses an engine call of the binder answers.
BindRc == {MIMER_SUCCESS} \cup NegRc

BinderStart(v, t) ==
  [at |-> "start", val |-> v, ptype |-> t, calls |-> <<>>, offset |-> 0,
   remaining |-> 0, rc |-> 0]

BindInit ==
  /\ InitSession
  /\ marshaller = NoRow
  /\ binder \in {BinderStart(v, t) : v \in JsValues, t \in ParamTypes}

\* The dispatch on the value, up to the first test of a write loop.
BindDispatch ==
  /\ binder.at = "start"
  /\ \E rc \in BindRc, ub \in Int64Undefined :
       LET b == BindValue(binder.val, binder.ptype, rc, ub)
           loops == b.lob # "none" /\ rc = 0 /\ Len(binder.val.bytes) > 0
       IN binder' = [binder EXCEPT
                       !.calls = b.calls,
                       !.rc = rc,
                       !.remaining = IF b.lob # "none" /\ rc = 0
                                     THEN Len(binder.val.bytes) ELSE 0,
                       !.at = IF loops THEN b.lob ELSE "done"]
  /\ UNCHANGED <<sessionVars, marshaller>>

\* Variant of the loop test that goes on after a failing write.
WriteStepIgnoresError(fn, chunk, rc) ==
  binder' = [binder EXCEPT
               !.calls = Append(binder.calls,
                                BindCall(fn, ChunkData(binder.val.bytes,
                                                       binder.offset, chunk), rc)),
               !.rc = rc,
               !.offset = binder.offset + chunk,
               !.remaining = binder.remaining - chunk,
               !.at = IF binder.remaining - chunk > 0
                      THEN binder.at ELSE "done"]

\* One iteration of a write loop, whose write call answers rc.
WriteStep(fn, chunk, rc) ==
  binder' = [binder EXCEPT
               !.calls = Append(binder.calls,
                                BindCall(fn, ChunkData(binder.val.bytes,
                                                       binder.offset, chunk), rc)),
               !.rc = rc,
               !.offset = binder.offset + chunk,
               !.remaining = binder.remaining - chunk,
               !.at = IF binder.remaining - chunk > 0 /\ rc >= 0
                      THEN binder.at ELSE "done"]

\* while (remaining > 0 && rc >= 0) of the character large object.
NclobWrite ==
  /\ binder.at = "nclob"
  /\ \E rc \in BindRc :
       WriteStep("MimerSetNclobData8",
                 Shrink(binder.val.bytes, binder.offset,
                        NominalChunk(binder.remaining), binder.remaining),
                 rc)
  /\ UNCHANGED <<sessionVars, marshaller>>

\* while (remaining > 0 && rc >= 0) of the binary large object.
BlobWrite ==
  /\ binder.at = "blob"
  /\ \E rc \in BindRc :
       WriteStep("MimerSetBlobData", NominalChunk(binder.remaining), rc)
  /\ UNCHANGED <<sessionVars, marshaller>>

BindNext ==
  \/ BindDispatch
  \/ NclobWrite
  \/ BlobWrite

BindSpec == BindInit /\ [][BindNext]_vars

\* BindParameters runs on: a loop iteration that can be taken is taken.
BindFair == BindSpec /\ WF_vars(BindNext)

\* ============================================= FetchSingleRow, column by column
\* The loop of FetchSingleRow (helpers.cc 306-418) over the columns of one
\* fetched row: one step per column.

\* The type tests of FetchSingleRow, in the order it applies them.
TypeTests == <<"MimerIsInt32", "MimerIsInt64", "MimerIsDouble", "MimerIsFloat",
               "MimerIsBoolean", "MimerIsBlob", "MimerIsNclob", "MimerIsBinary">>

\* A cached column type code, as the set of the type tests that hold for
\* it: none, one, or any two.
ColTypes ==
  {{TypeTests[i], TypeTests[j]} : i \in DOMAIN TypeTests, j \in DOMAIN TypeTests}
    \cup {{}}

\* Cached column names; two columns may have the same name.
ColNames == {"a", "b"}

\* What the engine answers for one column: whether MimerIsNull reports
\* null, the status (or size) the first getter call answers, the status of
\* the calls that follow, and the size MimerGetLob stores.  An answer that
\* is never asked for is left at its default.
ColAnswers ==
  {a \in [null : BOOLEAN, rc : {-1, 0, 1, 256}, rc2 : NegRc \cup {MIMER_SUCCESS},
          size : {0, 1, LOB_READ_CHUNK + 1}] :
     a.null => (a.rc = 0 /\ a.rc2 = 0 /\ a.size = 0)}

\* One engine call of the marshaller and the status it answered.
RowCall(fn, rc) == [fn |-> fn, rc |-> rc]

\* A getter that stores its value and answers a status: the column is set
\* when the status is 0.
GetScalar(fn, kind, a) ==
  [calls |-> <<RowCall(fn, a.rc)>>,
   value |-> IF a.rc = 0 THEN kind ELSE "unset"]

\* The reads of MimerGetBlobData for `remaining` bytes, each answering rc.
RECURSIVE BlobReads(_, _)
BlobReads(remaining, rc) ==
  IF remaining <= 0 THEN <<>>
  ELSE <<RowCall("MimerGetBlobData", rc)>>
         \o (IF rc < 0 THEN <<>>
             ELSE BlobReads(remaining - (IF remaining < LOB_READ_CHUNK
                                         THEN remaining ELSE LOB_READ_CHUNK), rc))

\* MimerIsBlob: MimerGetLob, then the chunked reads.
GetBlob(a) ==
  IF a.rc = 0 /\ a.size > 0
  THEN [calls |-> <<RowCall("MimerGetLob", a.rc)>> \o BlobReads(a.size, a.rc2),
        value |-> IF a.rc2 >= 0 THEN "buffer" ELSE "unset"]
  ELSE [calls |-> <<RowCall("MimerGetLob", a.rc)>>,
        value |-> IF a.rc = 0 THEN "buffer" ELSE "unset"]

\* MimerIsNclob: MimerGetLob, then reads until one answers 0 or fails; a
\* large object longer than one chunk takes a read that answers a positive
\* status first.
GetNclob(a) ==
  IF a.rc = 0 /\ a.size > 0
  THEN [calls |-> <<RowCall("MimerGetLob", a.rc)>>
                    \o (IF a.rc2 < 0 THEN <<RowCall("MimerGetNclobData8", a.rc2)>>
                        ELSE IF a.size > LOB_READ_CHUNK
                        THEN <<RowCall("MimerGetNclobData8", 1),
                               RowCall("MimerGetNclobData8", 0)>>
                        ELSE <<RowCall("MimerGetNclobData8", 0)>>),
        value |-> IF a.rc2 >= 0 THEN "string" ELSE "unset"]
  ELSE [calls |-> <<RowCall("MimerGetLob", a.rc)>>,
        value |-> IF a.rc = 0 THEN "string" ELSE "unset"]

\* MimerIsBinary: MimerGetBinary for the size, then for the bytes.
GetBinary(a) ==
  IF a.rc > 0
  THEN [calls |-> <<RowCall("MimerGetBinary", a.rc), RowCall("MimerGetBinary", a.rc2)>>,
        value |-> IF a.rc2 >= 0 THEN "buffer" ELSE "unset"]
  ELSE [calls |-> <<RowCall("MimerGetBinary", a.rc)>>, value |-> "buffer"]

\* The default: MimerGetString8 into a buffer of 256 bytes, and once more
\* when the value did not fit.
GetString(a) ==
  IF a.rc > 0 /\ a.rc < 256
  THEN [calls |-> <<RowCall("MimerGetString8", a.rc)>>, value |-> "string"]
  ELSE IF a.rc >= 256
  THEN [calls |-> <<RowCall("MimerGetString8", a.rc),
                    RowCall("MimerGetString8", a.rc2)>>,
        value |-> IF a.rc2 >= 0 THEN "string" ELSE "unset"]
  ELSE [calls |-> <<RowCall("MimerGetString8", a.rc)>>, value |-> "string"]

\* Variant of the type dispatch that tests MimerIsInt64 before MimerIsInt32.
ExtractColumnInt64First(t, a) ==
  IF "MimerIsInt64" \in t THEN GetScalar("MimerGetInt64", "number", a)
  ELSE IF "MimerIsInt32" \in t THEN GetScalar("MimerGetInt32", "number", a)
  ELSE GetString(a)

\* The if / else if chain of FetchSingleRow on the cached type code.
ExtractColumn(t, a) ==
  IF "MimerIsInt32" \in t THEN GetScalar("MimerGetInt32", "number", a)
  ELSE IF "MimerIsInt64" \in t THEN GetScalar("MimerGetInt64", "number", a)
  ELSE IF "MimerIsDouble" \in t THEN GetScalar("MimerGetDouble", "number", a)
  ELSE IF "MimerIsFloat" \in t THEN GetScalar("MimerGetFloat", "number", a)
  ELSE IF "MimerIsBoolean" \in t
  THEN [calls |-> <<RowCall("MimerGetBoolean", a.rc)>>, value |-> "boolean"]
  ELSE IF "MimerIsBlob" \in t THEN GetBlob(a)
  ELSE IF "MimerIsNclob" \in t THEN GetNclob(a)
  ELSE IF "MimerIsBinary" \in t THEN GetBinary(a)
  ELSE GetString(a)

\* The body of the loop for one column: the null test, then the getter.
FetchColumn(t, a) ==
  IF a.null
  THEN [calls |-> <<RowCall("MimerIsNull", 1)>>, value |-> "null"]
  ELSE LET x == ExtractColumn(t, a)
       IN [calls |-> <<RowCall("MimerIsNull", 0)>> \o x.calls, value |-> x.value]

\* FetchSingleRow about to read the first of the columns named `names`.
RowStart(names) ==
  [at |-> "row", names |-> names, col |-> 0, type |-> {},
   answer |-> [null |-> FALSE, rc |-> 0, rc2 |-> 0, size |-> 0], calls |-> <<>>,
   value |-> "unset", row |-> [nm \in ColNames |-> "absent"]]

RowInit ==
  /\ InitSession
  /\ binder = NoBind
  /\ marshaller \in {RowStart(names) :
                       names \in UNION {[1..n -> ColNames] : n \in 1..MaxCols}}

\* for (int col = 1; col <= columnCount; col++): one column.
FetchColumnStep ==
  /\ marshaller.at = "row"
  /\ \E t \in ColTypes, a \in ColAnswers :
       LET c == FetchColumn(t, a)
           col == marshaller.col + 1
           name == marshaller.names[col]
       IN marshaller' = [marshaller EXCEPT
                           !.col = col,
                           !.type = t,
                           !.answer = a,
                           !.calls = c.calls,
                           !.value = c.value,
                           !.row = IF c.value = "unset" THEN @
                                   ELSE [@ EXCEPT ![name] = c.value],
                           !.at = "col"]
  /\ UNCHANGED <<sessionVars, binder>>

\* col++ and the loop test: on to the next column, or return the row.
NextColumn ==
  /\ marshaller.at = "col"
  /\ marshaller' = [RowStart(marshaller.names) EXCEPT
                      !.col = marshaller.col,
                      !.row = marshaller.row,
                      !.at = IF marshaller.col = Len(marshaller.names)
                             THEN "done" ELSE "row"]
  /\ UNCHANGED <<sessionVars, binder>>

RowNext == FetchColumnStep \/ NextColumn

RowSpec == RowInit /\ [][RowNext]_vars

\* ================================================================ properties

\* C1 (cascading invalidation): every statement and result set that was
\* registered when close() tore a connected session down is closed and its
\* handle released; a later execute() on such a statement fails with
\* "Statement is closed", a later fetchNext() on such a result set returns
\* null and getFields() an empty array, and none of the later calls on such
\* an object issues an engine call, let alone one on a released handle.
C1_CascadingInvalidation ==
  /\ \A e \in cascaded :
       /\ e \notin liveH
       /\ stmts[e].st = "alive" \/ rsets[e].st = "alive"
       /\ stmts[e].st = "alive" =>
            stmts[e].closed_ /\ stmts[e].stmt_ = MIMERNULLHANDLE
       /\ rsets[e].st = "alive" =>
            rsets[e].closed_ /\ rsets[e].stmt_ = MIMERNULLHANDLE
  /\ op.target \in cascaded =>
       /\ calls = <<>>
       /\ op.name = "Statement.execute" => exc = JsError("Statement is closed")
       /\ op.name = "ResultSet.fetchNext" => ~Thrown /\ ret = RetVal("null")
       /\ op.name = "ResultSet.getFields" => ~Thrown /\ ret = RetFields(0)

\* C1 witness: a statement and a result set were both invalidated by a
\* close(), and execute() has just been called on the statement.
C1_Witness ==
  \E s \in cascaded, r \in cascaded :
    /\ stmts[s].st = "alive"
    /\ rsets[r].st = "alive"
    /\ op = [name |-> "Statement.execute", target |-> s]

\* C2 (teardown ordering): whenever an operation passes the session handle
\* to MimerEndSession, that operation is close() or the destructor, and for
\* every statement and result set registered when it started, the
\* MimerEndStatement call on its (then live) handle comes earlier in the
\* same operation.
C2_TeardownOrdering ==
  [][\A i \in DOMAIN calls' :
       calls'[i].fn = "MimerEndSession" =>
         /\ op'.name \in {"close", "~Connection"}
         /\ \A e \in openStatements_ :
              \E j \in 1..(i - 1) :
                /\ calls'[j].fn = "MimerEndStatement"
                /\ calls'[j].h = stmts[e].stmt_
                /\ calls'[j].live
         /\ \A e \in openResultSets_ :
              \E j \in 1..(i - 1) :
                /\ calls'[j].fn = "MimerEndStatement"
                /\ calls'[j].h = rsets[e].stmt_
                /\ calls'[j].live]_vars

\* C2 witness: a close() that released a result set and a statement before
\* it ended the session.
C2_Witness ==
  /\ op.name = "close"
  /\ \E i \in DOMAIN calls : calls[i].fn = "MimerEndSession" /\ i >= 4
  /\ \E i \in DOMAIN calls : calls[i].fn = "MimerCloseCursor"

\* C3 (session invariant): while connected_ is true, session_ is a handle
\* the engine opened and that has not been passed to MimerEndSession.
C3_SessionInvariant ==
  (connAlive /\ connected_) => SessLive(session_, nextSess, sessEnded)

\* C3 witness: a connect() failed on a connected session, which stays
\* connected.
C3_Witness ==
  /\ op.name = "connect"
  /\ Thrown
  /\ connected_

\* C4 (no use after end): every engine call made on a session handle is
\* made before that handle has been passed to MimerEndSession, so no handle
\* is used after its end and none is ended twice.
C4_NoUseAfterEnd ==
  \A i \in DOMAIN calls : calls[i].kind = "session" => calls[i].live

\* C5 (connect does not leak): every session handle the engine opened for
\* the object has been ended or is the object's current handle.
C5_NoSessionLeak ==
  connAlive => \A h \in 1..nextSess : h \in sessEnded \/ h = session_

\* C6 (close never fails outward): close() returns true with no exception
\* pending, whatever MimerEndSession answered, and connected_ is false
\* afterwards.
C6_CloseNeverFailsOutward ==
  op.name = "close" => (~Thrown /\ ret = RetVal("true") /\ ~connected_)

\* C7 (close when not connected): a close() on a session that is not
\* connected returns true, issues no engine call and changes neither the
\* session's fields, nor any wrapper, nor the engine; and since every close()
\* leaves connected_ false, a second close() is such a call.
C7_CloseNotConnectedNoOp ==
  [][op'.name = "close" =>
       /\ ~connected_'
       /\ ~connected_ =>
            /\ ret' = RetVal("true")
            /\ ~exc'.pending
            /\ calls' = <<>>
            /\ UNCHANGED <<connVars, entVars, engVars, cascaded>>]_vars

\* C7 witness: a close() that did nothing, on a session that a close() had
\* ended before.
C7_Witness ==
  /\ op.name = "close"
  /\ calls = <<>>
  /\ sessEnded # {}

\* C8 (entity handle invariant): for every statement and result-set object
\* the caller holds, stmt_ is a live engine handle exactly when closed_ is
\* false.
C8_EntityHandleInvariant ==
  \A e \in Handles :
    /\ stmts[e].st = "alive" =>
         ((stmts[e].stmt_ # MIMERNULLHANDLE /\ stmts[e].stmt_ \in liveH)
            <=> ~stmts[e].closed_)
    /\ rsets[e].st = "alive" =>
         ((rsets[e].stmt_ # MIMERNULLHANDLE /\ rsets[e].stmt_ \in liveH)
            <=> ~rsets[e].closed_)

\* C8 witness: the caller holds a closed result set and an open statement.
C8_Witness ==
  \E r \in Handles, s \in Handles :
    /\ rsets[r].st = "alive" /\ rsets[r].closed_
    /\ stmts[s].st = "alive" /\ ~stmts[s].closed_

\* C9 (cursor state machine): a result set never leaves Exhausted for Open,
\* and Closed is absorbing: no step changes any field of a closed result
\* set, an operation on it issues no engine call, fetchNext() returns null
\* and getFields() an empty array.
C9_CursorStateMachine ==
  [][\A e \in Handles :
       (rsets[e].st = "alive" /\ rsets'[e].st = "alive") =>
         /\ (rsets[e].exhausted_ /\ ~rsets[e].closed_) =>
              (rsets'[e].exhausted_ \/ rsets'[e].closed_)
         /\ rsets[e].closed_ =>
              /\ rsets'[e] = rsets[e]
              /\ op'.target = e =>
                   /\ calls' = <<>>
                   /\ ~exc'.pending
                   /\ op'.name = "ResultSet.fetchNext" => ret' = RetVal("null")
                   /\ op'.name = "ResultSet.getFields" => ret' = RetFields(0)]_vars

\* C9 witness: fetchNext() on a result set that was exhausted and then
\* closed.
C9_Witness ==
  \E e \in Handles :
    /\ op = [name |-> "ResultSet.fetchNext", target |-> e]
    /\ rsets[e].st = "alive"
    /\ rsets[e].closed_
    /\ rsets[e].exhausted_

\* C10 (exhaustion is monotonic): once fetchNext() has returned null on a
\* result set, every later fetchNext() on it returns null without calling
\* MimerFetch, whatever happened in between, and exhausted_ never goes back
\* to false.
C10_ExhaustionMonotonic ==
  [][\A e \in Handles :
       /\ (e \in nulled /\ op' = [name |-> "ResultSet.fetchNext", target |-> e]) =>
            /\ ret' = RetVal("null")
            /\ ~exc'.pending
            /\ \A i \in DOMAIN calls' : calls'[i].fn # "MimerFetch"
       /\ (rsets[e].st = "alive" /\ rsets'[e].st = "alive" /\ rsets[e].exhausted_) =>
            rsets'[e].exhausted_]_vars

\* C10 witness: fetchNext() on an open result set returned null without an
\* engine call: an earlier fetchNext() had reached the end of the data.
C10_Witness ==
  \E e \in Handles :
    /\ op = [name |-> "ResultSet.fetchNext", target |-> e]
    /\ e \in nulled
    /\ rsets[e].exhausted_
    /\ ~rsets[e].closed_
    /\ calls = <<>>

\* C11 (fetchNext never surfaces a failure): fetchNext() on a result set
\* that is neither closed nor exhausted calls MimerFetch once; when the
\* answer is MIMER_SUCCESS it returns a row and leaves the result set as it
\* was; for every other answer, the end of the data and a negative status
\* alike, it sets exhausted_ and returns null; it never throws.
C11_FetchNextNeverFails ==
  [][\A e \in Handles :
       (/\ op' = [name |-> "ResultSet.fetchNext", target |-> e]
        /\ ~rsets[e].closed_
        /\ ~rsets[e].exhausted_) =>
         /\ Len(calls') >= 1
         /\ calls'[1].fn = "MimerFetch"
         /\ calls'[1].h = rsets[e].stmt_
         /\ \A i \in 2..Len(calls') : calls'[i].fn # "MimerFetch"
         /\ ~exc'.pending
         /\ IF calls'[1].arg = MIMER_SUCCESS
            THEN ret'.kind = "row" /\ rsets'[e] = rsets[e]
            ELSE /\ ret' = RetVal("null")
                 /\ rsets'[e] = [rsets[e] EXCEPT !.exhausted_ = TRUE]]_vars

\* C11 witness: MimerFetch answered a negative status; fetchNext() returned
\* null and the result set is exhausted.
C11_Witness ==
  \E e \in Handles :
    /\ op = [name |-> "ResultSet.fetchNext", target |-> e]
    /\ calls # <<>>
    /\ calls[1].arg < 0
    /\ ret = RetVal("null")
    /\ ~Thrown
    /\ rsets[e].exhausted_

\* C12 (close of a statement or result set is idempotent): close() returns
\* true, never throws and leaves the object closed and out of the session's
\* registry.  On an open object it ends the handle exactly once, while the
\* handle is live (a result set closes its cursor first); on a closed object
\* it issues no engine call and changes neither the object, nor the session,
\* nor the engine.
C12_EntityCloseIdempotent ==
  [][\A e \in Handles :
       /\ op' = [name |-> "Statement.close", target |-> e] =>
            /\ ret' = RetVal("true")
            /\ ~exc'.pending
            /\ stmts'[e].closed_
            /\ e \notin openStatements_'
            /\ IF stmts[e].closed_
               THEN calls' = <<>> /\ UNCHANGED <<connVars, entVars, engVars>>
               ELSE /\ Len(calls') = 1
                    /\ calls'[1].fn = "MimerEndStatement"
                    /\ calls'[1].h = stmts[e].stmt_
                    /\ calls'[1].live
                    /\ liveH' = liveH \ {stmts[e].stmt_}
                    /\ e \in openStatements_
       /\ op' = [name |-> "ResultSet.close", target |-> e] =>
            /\ ret' = RetVal("true")
            /\ ~exc'.pending
            /\ rsets'[e].closed_
            /\ e \notin openResultSets_'
            /\ IF rsets[e].closed_
               THEN calls' = <<>> /\ UNCHANGED <<connVars, entVars, engVars>>
               ELSE /\ Len(calls') = 2
                    /\ calls'[1].fn = "MimerCloseCursor"
                    /\ calls'[1].h = rsets[e].stmt_
                    /\ calls'[1].live
                    /\ calls'[2].fn = "MimerEndStatement"
                    /\ calls'[2].h = rsets[e].stmt_
                    /\ calls'[2].live
                    /\ liveH' = liveH \ {rsets[e].stmt_}
                    /\ e \in openResultSets_]_vars

\* C12 witness: a second close() on a statement that its own first close()
\* had closed (no session close and no destruction of the session did).
C12_Witness ==
  \E e \in Handles :
    /\ op = [name |-> "Statement.close", target |-> e]
    /\ calls = <<>>
    /\ stmts[e].closed_
    /\ e \notin cascaded
    /\ connAlive

\* C13 (statement reuse): execute() on a statement that is not closed,
\* whether it succeeds or fails, is not rejected as closed, leaves every
\* field of the statement as it was (not closed, same handle), leaves the
\* handle live and the statement registered, never calls MimerEndStatement
\* and leaves no cursor open on the handle; with result columns a successful
\* execute() opens a cursor and ends with MimerCloseCursor.
C13_StatementReuse ==
  [][\A e \in Handles :
       (op' = [name |-> "Statement.execute", target |-> e] /\ ~stmts[e].closed_) =>
         /\ exc' # JsError("Statement is closed")
         /\ stmts'[e] = stmts[e]
         /\ stmts[e].stmt_ \in liveH'
         /\ stmts[e].stmt_ \notin curH'
         /\ e \in openStatements_'
         /\ UNCHANGED <<openStatements_, openResultSets_>>
         /\ \A i \in DOMAIN calls' :
              calls'[i].fn # "MimerEndStatement" /\ calls'[i].h = stmts[e].stmt_
         /\ (stmts[e].columnCount_ > 0 /\ ~exc'.pending) =>
              /\ \E i \in DOMAIN calls' :
                   calls'[i].fn = "MimerOpenCursor" /\ calls'[i].arg >= 0
              /\ calls'[Len(calls')].fn = "MimerCloseCursor"]_vars

\* C13 witness: an execute() with result columns delivered rows, and the
\* statement is open with no cursor on its handle.
C13_Witness ==
  \E e \in Handles :
    /\ op = [name |-> "Statement.execute", target |-> e]
    /\ ~Thrown
    /\ ret.hasRows
    /\ ret.rows > 0
    /\ ~stmts[e].closed_
    /\ stmts[e].stmt_ \in liveH
    /\ stmts[e].stmt_ \notin curH

\* C14 (execute on a closed statement): execute() on a closed statement,
\* whether its own close() or the session closed it, fails with "Statement
\* is closed", issues no engine call (so binds no parameter) and changes
\* neither the statement, nor the session, nor the engine.
C14_ExecuteOnClosed ==
  [][\A e \in Handles :
       (op' = [name |-> "Statement.execute", target |-> e] /\ stmts[e].closed_) =>
         /\ exc' = JsError("Statement is closed")
         /\ ret' = RetVal("undefined")
         /\ calls' = <<>>
         /\ UNCHANGED <<connVars, entVars, engVars>>]_vars

\* C14 witness: execute() was rejected on a statement that its own close()
\* had closed.
C14_Witness ==
  \E e \in Handles :
    /\ op = [name |-> "Statement.execute", target |-> e]
    /\ stmts[e].closed_
    /\ e \notin cascaded
    /\ connAlive
    /\ Thrown

\* C15 (executeDirect guaranteed release): on every exit path of execute the
\* set of live statement handles and the set of open cursors are what they
\* were before the call, the call registers nothing and creates no wrapper,
\* and when the engine handed out a statement handle the call issues exactly
\* one MimerEndStatement, on that handle, as its last engine call.
C15_ExecuteGuaranteedRelease ==
  [][op'.name = "execute" =>
       /\ liveH' = liveH
       /\ curH' = curH
       /\ UNCHANGED <<connVars, entVars, nextH>>
       /\ \A i \in DOMAIN calls' :
            calls'[i].kind = "statement" =>
              /\ calls'[Len(calls')].fn = "MimerEndStatement"
              /\ calls'[Len(calls')].h = calls'[i].h
              /\ calls'[i].fn = "MimerEndStatement" => i = Len(calls')
       /\ (calls' # <<>> /\ calls'[1].arg = MIMER_SUCCESS) =>
            /\ calls'[Len(calls')].fn = "MimerEndStatement"
            /\ calls'[Len(calls')].h = nextH + 1
            /\ calls'[Len(calls')].live]_vars

\* C15 witness: execute failed at MimerOpenCursor and ended the handle it
\* had prepared.
C15_Witness ==
  /\ op.name = "execute"
  /\ Thrown
  /\ \E i \in DOMAIN calls : calls[i].fn = "MimerOpenCursor" /\ calls[i].arg < 0
  /\ calls[Len(calls)].fn = "MimerEndStatement"
  /\ calls[Len(calls)].h \notin liveH

\* C16 (executeDirect DDL fallback): when MimerBeginStatement8 answers
\* "cannot be prepared" to execute, the call makes exactly one
\* MimerExecuteStatement8 call and no statement-level call (so binds no
\* parameter); a non-negative status gives {rowCount: 0} without fields and
\* rows, a negative one throws the engine's error and returns undefined.
C16_ExecuteDdlFallback ==
  (/\ op.name = "execute"
   /\ calls # <<>>
   /\ calls[1].fn = "MimerBeginStatement8"
   /\ calls[1].arg = MIMER_STATEMENT_CANNOT_BE_PREPARED) =>
    /\ Len(calls) >= 2
    /\ calls[2].fn = "MimerExecuteStatement8"
    /\ Cardinality({i \in DOMAIN calls : calls[i].fn = "MimerExecuteStatement8"}) = 1
    /\ \A i \in DOMAIN calls : calls[i].kind = "session"
    /\ \A i \in DOMAIN calls :
         calls[i].fn \notin {"MimerParameterCount", "MimerSetParameter",
                             "MimerBeginStatement8"} \/ i = 1
    /\ calls[2].arg >= 0 =>
         /\ ~Thrown
         /\ ret = RetRowCount(0)
         /\ ~ret.hasFields
         /\ ~ret.hasRows
         /\ ret.rowCount = 0
    /\ calls[2].arg < 0 =>
         /\ exc = ThrowMimerError(calls[2].arg, "MimerExecuteStatement8")
         /\ ret = RetVal("undefined")

\* C16 witness: the fallback ran and the direct execution succeeded.
C16_Witness ==
  /\ op.name = "execute"
  /\ Len(calls) = 2
  /\ calls[1].arg = MIMER_STATEMENT_CANNOT_BE_PREPARED
  /\ calls[2].fn = "MimerExecuteStatement8"
  /\ calls[2].arg >= 0
  /\ ret = RetRowCount(0)

\* C17 (result shape follows column count): a successful execute or
\* Statement.execute of a prepared statement without result columns returns
\* rowCount, the status MimerExecute answered, and neither fields nor rows;
\* with N > 0 result columns it returns N field descriptors, the k-th
\* describing column k, a rows array holding one row per successful
\* MimerFetch, and rowCount equal to the length of that array.
C17_ResultShape ==
  (/\ op.name \in {"execute", "Statement.execute"}
   /\ ~Thrown
   /\ \/ op.name = "Statement.execute"
      \/ \E i \in DOMAIN calls : calls[i].fn = "MimerColumnCount") =>
    LET n == IF op.name = "execute" THEN sqlCols
             ELSE stmts[op.target].columnCount_
        fetched == {i \in DOMAIN calls :
                      calls[i].fn = "MimerFetch" /\ calls[i].arg = MIMER_SUCCESS}
    IN /\ ret.kind = "result"
       /\ n = 0 =>
            /\ ~ret.hasFields
            /\ ~ret.hasRows
            /\ \E i \in DOMAIN calls :
                 /\ calls[i].fn = "MimerExecute"
                 /\ ret.rowCount = calls[i].arg
       /\ n > 0 =>
            /\ ret.hasFields
            /\ Len(ret.fields) = n
            /\ \A k \in 1..n : ret.fields[k] = k
            /\ ret.hasRows
            /\ ret.rows = Cardinality(fetched)
            /\ ret.rowCount = ret.rows

\* C17 witness: execute returned the rows of a statement with more than one
\* result column.
C17_Witness ==
  /\ op.name = "execute"
  /\ ~Thrown
  /\ sqlCols > 1
  /\ ret.hasRows
  /\ ret.rows > 0
  /\ Len(ret.fields) = sqlCols

\* C18 (executeQuery rejects non-queries): when MimerBeginStatement8 answers
\* "cannot be prepared", or when the statement was prepared, its parameters
\* (if any) were bound without error and MimerColumnCount answers zero,
\* executeQuery throws the "queryCursor only supports SELECT statements"
\* error, issues no MimerOpenCursor, returns undefined, registers nothing,
\* and has ended the handle it prepared, once, as its last engine call.
C18_ExecuteQueryRejectsNonQueries ==
  [][(/\ op'.name = "executeQuery"
      /\ calls' # <<>>
      /\ calls'[1].fn = "MimerBeginStatement8"
      /\ \/ calls'[1].arg = MIMER_STATEMENT_CANNOT_BE_PREPARED
         \/ /\ calls'[1].arg = MIMER_SUCCESS
            /\ sqlCols' = 0
            /\ \E i \in DOMAIN calls' : calls'[i].fn = "MimerColumnCount") =>
         /\ exc' \in {JsError("queryCursor only supports SELECT statements (DDL cannot be prepared)"),
                      JsError("queryCursor only supports SELECT statements (DML has no result columns)")}
         /\ \A i \in DOMAIN calls' : calls'[i].fn # "MimerOpenCursor"
         /\ ret' = RetVal("undefined")
         /\ UNCHANGED <<connVars, entVars, nextH>>
         /\ liveH' = liveH
         /\ curH' = curH
         /\ calls'[1].arg = MIMER_SUCCESS =>
              /\ calls'[Len(calls')].fn = "MimerEndStatement"
              /\ calls'[Len(calls')].h = nextH + 1
              /\ Cardinality({i \in DOMAIN calls' :
                                calls'[i].fn = "MimerEndStatement"}) = 1]_vars

\* C18 witness: executeQuery bound the parameters of a statement without
\* result columns and then rejected it.
C18_Witness ==
  /\ op.name = "executeQuery"
  /\ sqlCols = 0
  /\ exc = JsError("queryCursor only supports SELECT statements (DML has no result columns)")
  /\ \E i \in DOMAIN calls : calls[i].fn = "MimerSetParameter"
  /\ calls[Len(calls)].fn = "MimerEndStatement"
  /\ calls[Len(calls)].h \notin liveH

\* C18 as first stated: every executeQuery on an unpreparable statement or
\* on a prepared statement without result columns throws the "queryCursor
\* only supports SELECT statements" error, whatever happens to its
\* parameters.
C18_RejectsWhateverTheParameters ==
  [][(/\ op'.name = "executeQuery"
      /\ calls' # <<>>
      /\ calls'[1].fn = "MimerBeginStatement8"
      /\ \/ calls'[1].arg = MIMER_STATEMENT_CANNOT_BE_PREPARED
         \/ /\ calls'[1].arg = MIMER_SUCCESS
            /\ sqlCols' = 0) =>
         /\ exc' \in {JsError("queryCursor only supports SELECT statements (DDL cannot be prepared)"),
                      JsError("queryCursor only supports SELECT statements (DML has no result columns)")}
         /\ \A i \in DOMAIN calls' : calls'[i].fn # "MimerOpenCursor"
         /\ ret' = RetVal("undefined")
         /\ UNCHANGED <<connVars, entVars, nextH>>
         /\ liveH' = liveH
         /\ curH' = curH
         /\ calls'[1].arg = MIMER_SUCCESS =>
              /\ calls'[Len(calls')].fn = "MimerEndStatement"
              /\ calls'[Len(calls')].h = nextH + 1
              /\ Cardinality({i \in DOMAIN calls' :
                                calls'[i].fn = "MimerEndStatement"}) = 1]_vars

\* C19 (executeQuery all-or-nothing ownership): a successful executeQuery
\* returns a result set that is not closed and not exhausted, whose handle
\* is live with its cursor open, was not ended by the call and is held by
\* no other wrapper, and that is registered in openResultSets_ with its
\* parent connection set; an executeQuery that fails after the statement
\* was prepared ends the handle exactly once, as its last engine call, and
\* registers nothing.
C19_ExecuteQueryOwnership ==
  [][(/\ op'.name = "executeQuery"
      /\ calls' # <<>>
      /\ calls'[1].fn = "MimerBeginStatement8"
      /\ calls'[1].arg = MIMER_SUCCESS) =>
       LET h == nextH + 1
           ended == {i \in DOMAIN calls' : calls'[i].fn = "MimerEndStatement"}
       IN IF exc'.pending
          THEN /\ ended = {Len(calls')}
               /\ calls'[Len(calls')].h = h
               /\ calls'[Len(calls')].live
               /\ liveH' = liveH
               /\ curH' = curH
               /\ ret' = RetVal("undefined")
               /\ UNCHANGED <<connVars, entVars, nextH>>
          ELSE /\ ret' = [RetVal("resultset") EXCEPT !.handle = h]
               /\ rsets'[h].st = "alive"
               /\ rsets'[h].stmt_ = h
               /\ ~rsets'[h].closed_
               /\ ~rsets'[h].exhausted_
               /\ rsets'[h].parentConnection_
               /\ openResultSets_' = openResultSets_ \cup {h}
               /\ h \notin openResultSets_
               /\ h \in liveH'
               /\ h \in curH'
               /\ ended = {}
               /\ \A e \in Handles :
                    /\ stmts'[e].st = "alive" => stmts'[e].stmt_ # h
                    /\ (e # h /\ rsets'[e].st = "alive") => rsets'[e].stmt_ # h
               /\ UNCHANGED <<openStatements_, stmts, session_, connected_>>]_vars

\* C19 witness: executeQuery returned a registered, open result set while
\* an earlier wrapper still holds another handle.
C19_Witness ==
  \E h \in Handles :
    /\ op.name = "executeQuery"
    /\ ~Thrown
    /\ ret.kind = "resultset"
    /\ ret.handle = h
    /\ h \in openResultSets_
    /\ h \in curH
    /\ ~rsets[h].closed_
    /\ \E e \in Handles \ {h} : e \in liveH

\* C20 (prepare registers on success only): a successful prepare returns a
\* statement that is not closed, holds a live handle, is a member of
\* openStatements_ and has its parent connection set; a prepare whose
\* MimerBeginStatement8 answers a negative status, "cannot be prepared"
\* included, throws the engine's error for MimerBeginStatement8, returns
\* undefined, creates no wrapper and leaves both registries unchanged.
C20_PrepareRegistersOnSuccessOnly ==
  [][(op'.name = "prepare" /\ calls' # <<>>) =>
       IF calls'[1].arg < 0
       THEN /\ exc' = ThrowMimerError(calls'[1].arg, "MimerBeginStatement8")
            /\ ret' = RetVal("undefined")
            /\ op'.target = 0
            /\ liveH' = liveH
            /\ UNCHANGED <<connVars, entVars, nextH>>
       ELSE LET h == op'.target
            IN /\ ~exc'.pending
               /\ ret' = [RetVal("statement") EXCEPT !.handle = h]
               /\ h \in Handles
               /\ stmts'[h].st = "alive"
               /\ ~stmts'[h].closed_
               /\ stmts'[h].stmt_ # MIMERNULLHANDLE
               /\ stmts'[h].stmt_ \in liveH'
               /\ stmts'[h].stmt_ \notin liveH
               /\ stmts'[h].parentConnection_
               /\ h \notin openStatements_
               /\ openStatements_' = openStatements_ \cup {h}
               /\ UNCHANGED <<openResultSets_, rsets, session_, connected_>>]_vars

\* C20 witness: prepare was rejected with "cannot be prepared" while an
\* earlier statement stays registered.
C20_Witness ==
  /\ op.name = "prepare"
  /\ Thrown
  /\ exc = ThrowMimerError(MIMER_STATEMENT_CANNOT_BE_PREPARED, "MimerBeginStatement8")
  /\ openStatements_ # {}
  /\ calls[1].arg = MIMER_STATEMENT_CANNOT_BE_PREPARED

\* C21 (NotConnected): beginTransaction, commit, rollback, execute, prepare
\* and executeQuery called while connected_ is false throw "Not connected to
\* database", return undefined, issue no engine call and leave the
\* connection, the wrappers and the engine as they were.
C21_NotConnected ==
  [][(/\ op'.name \in {"beginTransaction", "commit", "rollback", "execute",
                       "prepare", "executeQuery"}
      /\ ~connected_) =>
       /\ exc' = JsError("Not connected to database")
       /\ ret' = RetVal("undefined")
       /\ calls' = <<>>
       /\ UNCHANGED <<connVars, entVars, engVars>>]_vars

\* C21 witness: commit was refused on a connection whose session close()
\* had ended.
C21_Witness ==
  /\ op.name = "commit"
  /\ exc = JsError("Not connected to database")
  /\ ~connected_
  /\ sessEnded # {}
  /\ calls = <<>>

\* C22 (parameter count invariant): an execute, executeQuery or
\* Statement.execute on a statement declaring K parameters that is given
\* K-1 or K+1 values throws the count mismatch of BindParameters (code 0,
\* detail <<K, given>>) without any bind call and without executing the
\* statement or opening its cursor; given K values it never throws the
\* count mismatch.
C22_ParameterCountInvariant ==
  op.name \in {"execute", "executeQuery", "Statement.execute"} =>
    LET K == sqlParams.declared
        given == sqlParams.provided
    IN /\ given \in {K - 1, K + 1} =>
            /\ exc = ThrowMimerErrorDetail(0, "BindParameters", <<K, given>>)
            /\ \A i \in DOMAIN calls :
                 calls[i].fn \notin {"MimerSetParameter", "MimerExecute",
                                     "MimerOpenCursor"}
       /\ given = K =>
            ~(exc.pending /\ exc.operation = "BindParameters" /\ exc.mimerCode = 0)

\* C23 (bind is fail-fast): the bind calls of an execution are issued for
\* the indices 1, 2, ... in increasing order; when the bind call for index i
\* answers a negative status, BindParameters throws that status with the
\* index i in its detail, no bind call for a later index is issued, the
\* statement is neither executed nor its cursor opened; Statement.execute
\* then leaves the statement open with its handle live, and execute and
\* executeQuery end the handle they prepared.
C23_BindFailFast ==
  op.name \in {"execute", "executeQuery", "Statement.execute"} =>
    LET binds == SelectSeq(calls, LAMBDA c : c.fn = "MimerSetParameter")
    IN /\ \A k \in DOMAIN binds : binds[k].arg = k
       /\ Len(binds) <= sqlParams.provided
       /\ (exc.pending /\ exc.operation = "BindParameters" /\ exc.mimerCode < 0) =>
            /\ exc.detail = <<Len(binds)>>
            /\ Len(binds) >= 1
            /\ calls[Len(calls) - (IF op.name = "Statement.execute" THEN 0 ELSE 1)]
                 = binds[Len(binds)]
            /\ \A i \in DOMAIN calls :
                 calls[i].fn \notin {"MimerExecute", "MimerOpenCursor",
                                     "MimerColumnCount"}
            /\ ret = RetVal("undefined")
            /\ IF op.name = "Statement.execute"
               THEN /\ \A i \in DOMAIN calls : calls[i].fn # "MimerEndStatement"
                    /\ ~stmts[op.target].closed_
                    /\ stmts[op.target].stmt_ \in liveH
               ELSE /\ calls[Len(calls)].fn = "MimerEndStatement"
                    /\ calls[Len(calls)].h = binds[1].h
                    /\ binds[1].h \notin liveH
       /\ (~exc.pending /\ sqlParams.provided > 0) =>
            Len(binds) = sqlParams.provided

\* C23 witness: Statement.execute with two values failed at the first bind
\* call and the statement is still open.
C23_Witness ==
  \E e \in Handles :
    /\ op = [name |-> "Statement.execute", target |-> e]
    /\ sqlParams.provided = 2
    /\ exc = ThrowMimerErrorDetail(-1, "BindParameters", <<1>>)
    /\ ~stmts[e].closed_
    /\ stmts[e].stmt_ \in liveH

\* The binder has dispatched its value.
BinderDispatched == binder.at \notin {"idle", "start"}

\* The bind calls of the binder: its calls but the question for the type.
BinderBinds == SelectSeq(binder.calls, LAMBDA c : c.fn # "MimerParameterType")

\* C24 (numeric parameter dispatch): for a number the binder issues exactly
\* one bind call: MimerSetInt32 when the
\* number is finite, whole and within [-2^31, 2^31 - 1], MimerSetInt64 when
\* it is finite and whole but outside, MimerSetDouble otherwise (a fraction,
\* NaN, an infinity); -2^31 and 2^31 - 1 go to MimerSetInt32, -2^31 - 1 and
\* 2^31 to MimerSetInt64.
C24_NumericDispatch ==
  (BinderDispatched /\ binder.val.kind = "number") =>
    LET n == binder.val.num
        whole == n.cls \in {"finite", "huge", "-huge"} /\ ~n.half
        in32 == n.cls = "finite" /\ -32768 <= n.hi /\ n.hi <= 32767
    IN /\ Len(binder.calls) = 1
       /\ binder.calls[1].fn = IF whole /\ in32 THEN "MimerSetInt32"
                               ELSE IF whole THEN "MimerSetInt64"
                               ELSE "MimerSetDouble"
       /\ n \in {Finite(-32768, 0, FALSE), Finite(32767, 65535, FALSE)} =>
            binder.calls[1].fn = "MimerSetInt32"
       /\ n \in {Finite(-32769, 65535, FALSE), Finite(32768, 0, FALSE)} =>
            binder.calls[1].fn = "MimerSetInt64"

\* C24 witness: the number 2^31 - 1 was bound with MimerSetInt32.
C24_Witness ==
  /\ BinderDispatched
  /\ binder.val.kind = "number"
  /\ binder.val.num = Finite(32767, 65535, FALSE)
  /\ binder.calls[1].fn = "MimerSetInt32"

RECURSIVE WholeCodePointsFrom(_, _)
WholeCodePointsFrom(s, i) ==
  IF i = Len(s) THEN TRUE
  ELSE LET c == s[i + 1]
           n == IF c < 128 THEN 1
                ELSE IF c >= 192 /\ c < 224 THEN 2
                ELSE IF c >= 224 /\ c < 240 THEN 3
                ELSE IF c >= 240 /\ c < 248 THEN 4
                ELSE 0
       IN /\ n > 0
          /\ i + n <= Len(s)
          /\ \A k \in (i + 2)..(i + n) : s[k] >= 128 /\ s[k] < 192
          /\ WholeCodePointsFrom(s, i + n)

\* C26 (character LOB write is boundary-safe): with a write chunk limit of
\* at least 4 bytes, every chunk passed to MimerSetNclobData8 for a
\* well-formed UTF-8 string is not empty, is no longer than the limit,
\* does not begin with a continuation byte and consists of whole code
\* points.
C26_NclobChunksOnBoundaries ==
  (BinderDispatched /\ binder.val.kind = "string" /\ LOB_WRITE_CHUNK >= 4) =>
    \A k \in DOMAIN binder.calls :
      binder.calls[k].fn = "MimerSetNclobData8" =>
        LET chunk == binder.calls[k].arg
        IN /\ Len(chunk) > 0
           /\ Len(chunk) <= LOB_WRITE_CHUNK
           /\ chunk[1] < 128 \/ chunk[1] >= 192
           /\ WholeCodePointsFrom(chunk, 0)

\* C26 witness: a chunk that is not the last one was cut short of the limit
\* because the limit fell inside a code point.
C26_Witness ==
  /\ binder.at = "done"
  /\ binder.val.kind = "string"
  /\ \E k \in DOMAIN binder.calls :
       /\ k < Len(binder.calls)
       /\ binder.calls[k].fn = "MimerSetNclobData8"
       /\ Len(binder.calls[k].arg) < LOB_WRITE_CHUNK

\* The chunks written so far, one after the other.
RECURSIVE ConcatChunks(_)
ConcatChunks(cs) ==
  IF cs = <<>> THEN <<>>
  ELSE IF Head(cs).fn \in {"MimerSetNclobData8", "MimerSetBlobData"}
  THEN Head(cs).arg \o ConcatChunks(Tail(cs))
  ELSE ConcatChunks(Tail(cs))

\* C27 (LOB write preserves content): at every point of a write loop the
\* chunks passed to the engine so far, in order, are the first `offset`
\* bytes of the value; when the loop has ended and every call succeeded,
\* they are the whole value.
C27_LobWritePreservesContent ==
  (BinderDispatched /\ Len(binder.calls) >= 2 /\ binder.calls[2].fn = "MimerSetLob") =>
    /\ ConcatChunks(binder.calls) = SubSeq(binder.val.bytes, 1, binder.offset)
    /\ (binder.at = "done" /\ \A k \in DOMAIN binder.calls : binder.calls[k].rc >= 0) =>
         ConcatChunks(binder.calls) = binder.val.bytes

\* C27 witness: a string was written in several chunks, one of them cut
\* short of the limit, and every write succeeded.
C27_Witness ==
  /\ binder.at = "done"
  /\ binder.val.kind = "string"
  /\ \A k \in DOMAIN binder.calls : binder.calls[k].rc >= 0
  /\ Len(binder.calls) >= 4
  /\ Len(binder.calls[3].arg) < LOB_WRITE_CHUNK
  /\ ConcatChunks(binder.calls) = binder.val.bytes

\* C28 (no partial success): an execute, Statement.execute, executeQuery,
\* beginTransaction, commit or rollback during which MimerBeginStatement8,
\* MimerOpenCursor, MimerExecute, MimerFetch or a transaction call
\* answered a negative status (other than "cannot be prepared", which
\* execute answers with its fallback) ends with an error thrown to the
\* caller, who receives no result.
C28_NoPartialSuccess ==
  (/\ op.name \in {"execute", "Statement.execute", "executeQuery",
                   "beginTransaction", "commit", "rollback"}
   /\ \E i \in DOMAIN calls :
        /\ calls[i].fn \in {"MimerBeginStatement8", "MimerOpenCursor",
                            "MimerExecute", "MimerExecuteStatement8", "MimerFetch",
                            "MimerBeginTransaction", "MimerEndTransaction"}
        /\ calls[i].arg < 0
        /\ calls[i].arg # MIMER_STATEMENT_CANNOT_BE_PREPARED) =>
    Thrown

\* C29 (structured failures): every exception an operation of the
\* connection, of a statement or of a result set throws carries the
\* structured fields mimerCode and operation, the operation being named.
C29_FailuresAreStructured ==
  Thrown => (exc.structured /\ exc.operation # "")

\* The getter calls of the column the marshaller has just read.
RowGetters == SelectSeq(marshaller.calls, LAMBDA c : c.fn # "MimerIsNull")

\* The getter functions of the path a type test selects, and the kind of
\* value the path yields.
PathOfTest ==
  [MimerIsInt32 |-> [fns |-> {"MimerGetInt32"}, kind |-> "number"],
   MimerIsInt64 |-> [fns |-> {"MimerGetInt64"}, kind |-> "number"],
   MimerIsDouble |-> [fns |-> {"MimerGetDouble"}, kind |-> "number"],
   MimerIsFloat |-> [fns |-> {"MimerGetFloat"}, kind |-> "number"],
   MimerIsBoolean |-> [fns |-> {"MimerGetBoolean"}, kind |-> "boolean"],
   MimerIsBlob |-> [fns |-> {"MimerGetLob", "MimerGetBlobData"}, kind |-> "buffer"],
   MimerIsNclob |-> [fns |-> {"MimerGetLob", "MimerGetNclobData8"}, kind |-> "string"],
   MimerIsBinary |-> [fns |-> {"MimerGetBinary"}, kind |-> "buffer"]]

\* C30 (row marshalling dispatch): when MimerIsNull reports null for a
\* column, the row holds null under the column's name and no getter is
\* called, whatever the column type; otherwise the getters called are
\* those of one path, the path of the first type test, in the order int32,
\* int64, double, float, boolean, blob, nclob, binary, that holds for the
\* cached type code, or MimerGetString8 when none holds, the path's first
\* getter comes first, and a value that is set is of the path's kind.
C30_RowMarshallingDispatch ==
  marshaller.at = "col" =>
    LET t == marshaller.type
        g == RowGetters
        fns == {g[k].fn : k \in DOMAIN g}
        name == marshaller.names[marshaller.col]
        holding == {i \in DOMAIN TypeTests : TypeTests[i] \in t}
        first == CHOOSE i \in holding : \A j \in holding : i <= j
        path == IF holding = {}
                THEN [fns |-> {"MimerGetString8"}, kind |-> "string"]
                ELSE PathOfTest[TypeTests[first]]
    IN /\ marshaller.calls[1].fn = "MimerIsNull"
       /\ marshaller.answer.null =>
            /\ g = <<>>
            /\ marshaller.value = "null"
            /\ marshaller.row[name] = "null"
       /\ ~marshaller.answer.null =>
            /\ Len(g) >= 1
            /\ fns \subseteq path.fns
            /\ g[1].fn \in path.fns \ {"MimerGetBlobData", "MimerGetNclobData8"}
            /\ marshaller.value \in {path.kind, "unset"}
            /\ marshaller.value # "unset" => marshaller.row[name] = path.kind

\* C30 witness: a column whose type code passes both the int32 and the
\* int64 test was read with MimerGetInt32, after a null column.
C30_Witness ==
  /\ marshaller.at = "col"
  /\ marshaller.col = 2
  /\ marshaller.type = {"MimerIsInt32", "MimerIsInt64"}
  /\ ~marshaller.answer.null
  /\ RowGetters = <<RowCall("MimerGetInt32", 0)>>
  /\ marshaller.row[marshaller.names[1]] = "null"

\* The number of MimerEndStatement calls on handle h in the call log `log`.
EndStatementCalls(log, h) ==
  Cardinality({i \in DOMAIN log : log[i].fn = "MimerEndStatement" /\ log[i].h = h})

\* C31 (invalidate does not touch the registry): in a teardown (a close()
\* of a connected session, or the destructor), Invalidate of a registered
\* statement or result set asks for no unregister; it ends the wrapper's
\* handle, once, sets closed_ and clears parentConnection_; every
\* registered wrapper is invalidated exactly once, no other wrapper
\* changes, and both registries are empty afterwards, by the teardown's own
\* clear.
C31_InvalidateLeavesRegistry ==
  [][(Idle /\ op'.name \in {"close", "~Connection"}
        /\ (op'.name = "close" => connected_)) =>
       /\ \A e \in openStatements_ :
            /\ ~StmtInvalidate(stmts[e]).unregister
            /\ stmts'[e] = StmtInvalidate(stmts[e]).w
            /\ stmts'[e].closed_
            /\ stmts'[e].stmt_ = MIMERNULLHANDLE
            /\ ~stmts'[e].parentConnection_
            /\ EndStatementCalls(calls', stmts[e].stmt_) = 1
       /\ \A e \in openResultSets_ :
            /\ ~RsInvalidate(rsets[e]).unregister
            /\ rsets'[e] = RsInvalidate(rsets[e]).w
            /\ rsets'[e].closed_
            /\ rsets'[e].stmt_ = MIMERNULLHANDLE
            /\ ~rsets'[e].parentConnection_
            /\ EndStatementCalls(calls', rsets[e].stmt_) = 1
       /\ \A e \in Handles \ openStatements_ : stmts'[e] = stmts[e]
       /\ \A e \in Handles \ openResultSets_ : rsets'[e] = rsets[e]
       /\ \A i \in DOMAIN calls' :
            calls'[i].fn = "MimerEndStatement" =>
              /\ calls'[i].live
              /\ \/ \E e \in openStatements_ : stmts[e].stmt_ = calls'[i].h
                 \/ \E e \in openResultSets_ : rsets[e].stmt_ = calls'[i].h
       /\ openStatements_' = {}
       /\ openResultSets_' = {}]_vars

\* C31 witness: a close() has just invalidated a registered statement and a
\* registered result set, with one MimerEndStatement call for each.
C31_Witness ==
  /\ op.name = "close"
  /\ openStatements_ = {}
  /\ openResultSets_ = {}
  /\ \E s \in Handles, r \in Handles :
       /\ stmts[s].st = "alive" /\ stmts[s].closed_
       /\ rsets[r].st = "alive" /\ rsets[r].closed_
       /\ EndStatementCalls(calls, s) = 1
       /\ EndStatementCalls(calls, r) = 1

\* C32 (registry consistency): a statement (a result set) is in the
\* connection's openStatements_ (openResultSets_) exactly when the wrapper
\* object exists, is not closed and its parentConnection_ points to the
\* connection; so no registry holds a closed or destroyed wrapper, and no
\* wrapper is in both registries.
C32_RegistryConsistency ==
  \A e \in Handles :
    /\ e \in openStatements_ <=>
         (stmts[e].st = "alive" /\ ~stmts[e].closed_ /\ stmts[e].parentConnection_)
    /\ e \in openResultSets_ <=>
         (rsets[e].st = "alive" /\ ~rsets[e].closed_ /\ rsets[e].parentConnection_)
    /\ ~(e \in openStatements_ /\ e \in openResultSets_)

\* C32 witness: one statement is registered while another was destroyed by
\* the garbage collector when open, and so unregistered.
C32_Witness ==
  /\ op.name = "~Statement"
  /\ \E i \in DOMAIN calls : calls[i].fn = "MimerEndStatement"
  /\ stmts[op.target].st = "destroyed"
  /\ openStatements_ # {}
  /\ connected_

\* C33 (no registrations without a connection): whenever connected_ is
\* false, before the first successful connect, after a failed connect and
\* after close(), openStatements_ and openResultSets_ are empty.
C33_RegistriesEmptyWhenNotConnected ==
  ~connected_ => (openStatements_ = {} /\ openResultSets_ = {})

\* C33 witness: close() has just ended a session that had a statement and a
\* result set registered, and the connection object is still there.
C33_Witness ==
  /\ op.name = "close"
  /\ connAlive
  /\ ~connected_
  /\ \E s \in cascaded, r \in cascaded :
       stmts[s].st = "alive" /\ rsets[r].st = "alive"
  /\ openStatements_ = {}
  /\ openResultSets_ = {}

\* Whether the operation that starts on wrapper t calls
\* UnregisterStatement or UnregisterResultSet through parentConnection_.
CallsUnregister(name, t) ==
  CASE name = "Statement.close" -> StmtCloseInternal(stmts[t]).unregister
    [] name = "~Statement" -> StmtDestructor(stmts[t]).unregister
    [] name = "ResultSet.close" -> RsCloseInternal(rsets[t]).unregister
    [] name = "~ResultSet" -> RsDestructor(rsets[t]).unregister
    [] OTHER -> FALSE

\* C34 (destruction-order independence): whatever the order of close()
\* calls, teardowns and destructions of the connection, statement and
\* result-set objects, a MimerEndStatement call is given a handle that is
\* live and a MimerEndSession call a session handle not ended before (so
\* no handle is ended twice); the handle of a closed or destroyed wrapper
\* has been ended, and once the connection object is destroyed no
\* statement handle is left (so every handle is ended once); a wrapper
\* calls unregister through parentConnection_ only while the connection
\* object exists, and no wrapper keeps a parentConnection_ to a destroyed
\* connection.
C34_DestructionOrderIndependence ==
  [][/\ \A i \in DOMAIN calls' :
          calls'[i].fn \in {"MimerEndStatement", "MimerEndSession"} => calls'[i].live
     /\ \A e \in Handles :
          /\ (stmts'[e].st = "destroyed" \/ rsets'[e].st = "destroyed") => e \notin liveH'
          /\ (stmts'[e].st = "alive" /\ stmts'[e].closed_) => e \notin liveH'
          /\ (rsets'[e].st = "alive" /\ rsets'[e].closed_) => e \notin liveH'
          /\ (stmts'[e].parentConnection_ \/ rsets'[e].parentConnection_) => connAlive'
     /\ ~connAlive' => liveH' = {}
     /\ (Idle /\ CallsUnregister(op'.name, op'.target)) => connAlive]_vars

\* C34 witness: the connection object was destroyed while a statement was
\* open, and the statement object is destroyed after it, without an engine
\* call, the session handle and the statement's handle having been ended.
C34_Witness ==
  /\ op.name = "~Statement"
  /\ ~connAlive
  /\ calls = <<>>
  /\ sessEnded # {}
  /\ liveH = {}
  /\ \E r \in Handles : rsets[r].st = "destroyed"

\* The statement handles held by the statement and result-set objects that
\* exist and are not closed.
HeldHandles ==
  {stmts[e].stmt_ : e \in {x \in Handles : stmts[x].st = "alive" /\ ~stmts[x].closed_}}
    \cup {rsets[e].stmt_ : e \in {x \in Handles : rsets[x].st = "alive" /\ ~rsets[x].closed_}}

\* C35 (no statement-handle leak): between two operations, and when an
\* operation has just returned, the statement handles the engine has
\* prepared and not ended are exactly the handles held by the statement and
\* result-set objects that are not closed; when close() has returned there
\* is none.
C35_NoStatementHandleLeak ==
  /\ liveH = HeldHandles
  /\ MIMERNULLHANDLE \notin HeldHandles
  /\ op.name = "close" => liveH = {}

\* C35 witness: close() has returned after ending the handles of a
\* statement and of a result set, both objects still being there.
C35_Witness ==
  /\ op.name = "close"
  /\ liveH = {}
  /\ nextH = MaxHandles
  /\ \E i \in DOMAIN calls : calls[i].fn = "MimerCloseCursor" /\ calls[i].live
  /\ \E s \in Handles : stmts[s].st = "alive" /\ EndStatementCalls(calls, s) = 1

\* The chunk writes the binder has issued.
LobWrites ==
  SelectSeq(binder.calls,
            LAMBDA c : c.fn \in {"MimerSetNclobData8", "MimerSetBlobData"})

RECURSIVE SumOfSizes(_)
SumOfSizes(cs) == IF cs = <<>> THEN 0 ELSE Len(Head(cs).arg) + SumOfSizes(Tail(cs))

\* What holds of the chunk writes in every state of the binder.
C36_Progress ==
  BinderDispatched =>
    LET w == LobWrites
        L == Len(binder.val.bytes)
    IN /\ \A i \in DOMAIN w : Len(w[i].arg) \in 1..LOB_WRITE_CHUNK
       /\ \A i \in DOMAIN w : i < Len(w) => w[i].rc >= 0
       /\ binder.offset = SumOfSizes(w)
       /\ binder.remaining >= 0
       /\ binder.at \in {"nclob", "blob"} =>
            (binder.remaining > 0 /\ binder.remaining = L - binder.offset)
       /\ (binder.at = "done" /\ w # <<>> /\ w[Len(w)].rc >= 0) => SumOfSizes(w) = L
       /\ L = 0 => w = <<>>

\* C36 (termination and progress of the large-object write): for every
\* buffer and every well-formed UTF-8 string of L bytes, and whatever the
\* write calls answer, BindParameters gets to the end of the value; every
\* chunk written has between 1 and LOB_WRITE_CHUNK bytes; when no write
\* fails, the chunk sizes sum to L; no chunk is written after a write that
\* answered a negative status; and no chunk is written when L = 0.
C36_LobWriteTerminates ==
  /\ []C36_Progress
  /\ <>(binder.at = "done")

\* C36 witness: a string of more than LOB_WRITE_CHUNK bytes has been
\* written in full, in chunks of which one is shorter than the limit while
\* data remained after it.
C36_Witness ==
  /\ binder.at = "done"
  /\ IsString(binder.val)
  /\ Len(LobWrites) >= 3
  /\ LobWrites[Len(LobWrites)].rc >= 0
  /\ Len(LobWrites[1].arg) < LOB_WRITE_CHUNK
  /\ SumOfSizes(LobWrites) = Len(binder.val.bytes)

\* The double whose value is that of the 64-bit integer i, when the model's
\* numbers hold it.
NumOfInt64(i) ==
  IF i.w3 = 0 /\ i.w2 < 32768 THEN Finite(i.w2 * 65536 + i.w1, i.w0, FALSE)
  ELSE IF i.w3 = -1 /\ i.w2 >= 32768
  THEN Finite((i.w2 - 65536) * 65536 + i.w1, i.w0, FALSE)
  ELSE Num("int64", i.w3, i.w2, FALSE)

\* C37 (integer parameter value preservation): a finite whole number bound
\* with MimerSetInt32 or MimerSetInt64 reaches the engine as the integer of
\* the same value, and a number bound with MimerSetInt64 lies within
\* [-2^63, 2^63 - 1].
C37_IntegerValuePreserved ==
  (BinderDispatched /\ binder.val.kind = "number") =>
    LET n == binder.val.num
        c == binder.calls[1]
    IN /\ c.fn = "MimerSetInt32" =>
            (n.cls = "finite" /\ ~n.half /\ c.arg = n.hi * 65536 + n.lo)
       /\ c.fn = "MimerSetInt64" =>
            (InInt64Range(n) /\ NumOfInt64(c.arg) = n)

\* The kind of value the extraction path of a column of type t yields: that
\* of the first type test that holds, a string when none holds.
SelectedKind(t) ==
  LET holding == {i \in DOMAIN TypeTests : TypeTests[i] \in t}
      first == CHOOSE i \in holding : \A j \in holding : i <= j
  IN IF holding = {} THEN "string" ELSE PathOfTest[TypeTests[first]].kind

\* The entries of the row object built so far.
RowEntries == {nm \in ColNames : marshaller.row[nm] # "absent"}

\* C38 (row completeness): the row FetchSingleRow returns for N columns has
\* exactly N entries; each column read has put, under its cached name, null
\* or a value of the kind selected for its type, whatever the column names
\* (two columns of the same name included) and whatever the getters answer.
C38_RowCompleteness ==
  /\ marshaller.at = "col" =>
       /\ marshaller.value \in {"null", SelectedKind(marshaller.type)}
       /\ marshaller.row[marshaller.names[marshaller.col]] = marshaller.value
  /\ marshaller.at = "done" =>
       Cardinality(RowEntries) = Len(marshaller.names)

====
